---- MODULE Spec2Model ----
(***************************************************************************)
(* Model of the HTTP/WebDAV backend of lsst.resources / lsst.butlerUri:    *)
(*   - HttpReadResourceHandle (read / seek / close over ranged GETs),      *)
(*   - HttpResourcePath.write / transfer_from (staged transfers),          *)
(*   - the per-authority session cache (SessionStore, metadata_session,    *)
(*     data_session) under fork and under concurrent callers.              *)
(* Each part has its own specification over the shared variable tuple;     *)
(* the variables of the other parts stay at their initial values.          *)
(***************************************************************************)
EXTENDS Integers, Sequences, FiniteSets, TLC

\* ------------------------------------------------------------------ bounds
BodyLen == 3            \* length of the remote body served to the handle
MaxSize == 3            \* largest size argument given to read()
MaxSeek == 3            \* largest absolute offset given to seek()
MaxPosition == 4        \* seek() is not driven beyond this position
MaxRequests == 3        \* GET requests one handle sends in a run
Depth == 2              \* directories between the root and the destination file
NumInstances == 3       \* HttpResourcePath instances that use the session stores
MaxSessions == 4        \* sessions created in a run
MaxPid == 2             \* process IDs: the parent and one forked child
NumThreads == 2         \* threads that call SessionStore.get
MaxDirs == 3            \* collections below the root of the walked server
MaxOps == 3             \* operations on URIs, the construction included
MaxPropstats == 2       \* propstat elements in one response element of a PROPFIND answer
MaxLength == 2          \* largest getcontentlength a server reports
NumCallers == 3         \* threads that call mkdir, or write, at the same time
NumProbers == 4         \* HttpResourcePath instances that evaluate is_webdav_endpoint
MaxProbes == 4          \* OPTIONS requests sent in a run
maxsize == 2            \* results functools.lru_cache keeps (128 in the code), scaled to the roots

\* ------------------------------------------------------- program constants
SEEK_SET == 0
SEEK_CUR == 1
SEEK_END == 2
ok == 200
partial == 206
accepted == 202
not_found == 404
created == 201
no_content == 204
multi_status == 207
temporary_redirect == 307
method_not_allowed == 405
conflict == 409
range_not_satisfiable == 416
forbidden == 403
too_many_requests == 429
internal_server_error == 500
bad_gateway == 502
service_unavailable == 503
gateway_timeout == 504
RetryTotal == 6
RetryConnect == 3
RetryRead == 3
RetryStatus == 5

VARIABLES
    \* HttpReadResourceHandle
    completeBuffer,     \* self._completeBuffer: None or a BytesIO (bytes, pos)
    current_position,   \* self._current_position
    eof,                \* self._eof
    closed,             \* self._closed == CloseStatus.CLOSED
    handleRequests,     \* number of GET requests the handle has sent
    wholeRead,          \* history: an unranged read succeeded and the handle is still open
    handleLast          \* the last call on the handle: arguments, answer, result

handleVars == <<completeBuffer, current_position, eof, closed, handleRequests, wholeRead,
                handleLast>>

VARIABLES
    \* HttpResourcePath.write / transfer_from, one call, request by request
    pc,                 \* the place in the code the call has reached
    stack,              \* the places to return to, innermost first
    call,               \* the call: operation and arguments
    outcome,            \* "none", "returned" or the exception raised
    sent,               \* the HTTP requests sent so far, in order, with their answers
    frame,              \* locals: exists() target and result, mkdir level, upload URL
    isWebdavCache,      \* _is_webdav_endpoint results cached per root
    debug,              \* log.isEnabledFor(logging.DEBUG)
    tmpFile,            \* the local temporary file of _as_local exists
    inAsLocal,          \* control is inside "with src.as_local()"
    davServer,          \* the servers: which roots answer OPTIONS with "DAV: 1"
    remote              \* the servers: resources and directories

transferVars == <<pc, stack, call, outcome, sent, frame, isWebdavCache, debug, tmpFile,
                  inAsLocal, davServer, remote>>

VARIABLES
    \* SessionStore, HttpResourcePath.metadata_session / data_session
    pid,                \* os.getpid()
    instPid,            \* self._pid of each instance (the class attribute is -1)
    instSession,        \* self._metadata_session / self._data_session (0: not set)
    sessions,           \* SessionStore._sessions of the two stores (0: key absent)
    made,               \* the sessions created so far: a session is its index here
    lastSession,        \* the last property access: instance, property, pid, result
    \* SessionStore.get called by threads, statement by statement
    threadPc,           \* the place in get() each thread has reached
    threadKey,          \* root_uri of each thread's call
    threadMade,         \* the session a thread got from _make_session (0: none)
    threadResult        \* what get() returned to each thread: key and session

sessionVars == <<pid, instPid, instSession, sessions, made, lastSession,
                 threadPc, threadKey, threadMade, threadResult>>

VARIABLES
    \* HttpResourcePath._send_webdav_request, one call, request by request
    reqPc,              \* "idle", "loop" (inside the for loop) or "done"
    reqMethod,          \* the HTTP verb of the call
    reqHeaders,         \* the headers of the call
    reqBody,            \* the body of the call
    reqUrl,             \* url: the resource URL, then the Location of the last redirect
    reqIter,            \* iterations of the for loop completed
    reqSent,            \* the requests sent by the call, in order, with their answers
    reqOutcome          \* "none", "returned" or the exception raised

requestVars == <<reqPc, reqMethod, reqHeaders, reqBody, reqUrl, reqIter, reqSent, reqOutcome>>

VARIABLES
    \* HttpResourcePath.walk, one traversal, PROPFIND by PROPFIND
    tree,               \* the server: the collections and which of them hold a file
    walkStart,          \* the directory walk() was called on
    walkStack,          \* the directories still to be walked, next first
    walkYielded,        \* the triples yielded so far, in order
    walkPc,             \* "idle", "walking" or "done"
    walkOutcome         \* "none", "returned" or the exception raised

walkVars == <<tree, walkStart, walkStack, walkYielded, walkPc, walkOutcome>>

VARIABLES
    \* ButlerURI: one URI object and the operations called on it
    uri,                \* the URI object the next operation is called on
    uriLog              \* the operations called so far, with arguments and results

uriVars == <<uri, uriLog>>

VARIABLES
    \* HttpResourcePath.size and exists, one call and its PROPFIND or HEAD answer
    davCall,            \* the call: operation, dirLike, is_webdav_endpoint
    davAnswer,          \* the answer of the server to the request of the call
    davProp,            \* the DavProperty built from the answer, if one was built
    davOutcome          \* what the call returned or raised

davVars == <<davCall, davAnswer, davProp, davOutcome>>

VARIABLES
    \* is_webdav_endpoint and the lru_cache of _is_webdav_endpoint
    lruCache,           \* the cached results, the most recently used first
    isWebdav,           \* self._is_webdav of every instance
    optionsCount,       \* number of OPTIONS requests sent
    firstResult,        \* history: per root, the result of the first probe that returned
    probeLast           \* the last evaluation: instance, result, whether OPTIONS was sent

probeVars == <<lruCache, isWebdav, optionsCount, firstResult, probeLast>>

VARIABLES
    \* HttpResourcePath.mkdir called by several threads on one directory
    mkDirs,             \* the server: which levels of the path are collections
    mkPc,               \* per caller: "idle", "propfind", "mkcol" or "done"
    mkLevel,            \* per caller: the level whose mkdir() is running
    mkLast,             \* per caller: the last answer received
    mkFailed,           \* history, per caller: the server refused a request
    mkOutcome           \* per caller: "none", "returned" or the exception raised

mkdirVars == <<mkDirs, mkPc, mkLevel, mkLast, mkFailed, mkOutcome>>

VARIABLES
    \* write and transfer_from with overwrite=False, called by several threads
    \* on one destination
    raceDst,            \* the server: 0 when the destination is absent, else whose data it holds
    racePc,             \* per caller: "idle", "exists", "upload" or "done"
    raceOp,             \* per caller: "none", "write" or "transfer_from"
    raceUploads,        \* history: the callers whose data was uploaded, in order
    raceOutcome         \* per caller: "none", "returned" or the exception raised

raceVars == <<raceDst, racePc, raceOp, raceUploads, raceOutcome>>

VARIABLES
    \* one request sent through a session, with the retries of its adapter
    retryMethod,        \* the method of the request, "none" before it is sent
    retries,            \* the Retry object: the counts left (total, connect, read, status)
    retried,            \* history: the retries made, by cause
    retryCause,         \* history: the failure that the last retry followed
    retryOutcome        \* "none", "returned" or the exception raised

retryVars == <<retryMethod, retries, retried, retryCause, retryOutcome>>

VARIABLES
    \* the bearer token on the requests of one HttpResourcePath
    authEndpoint,       \* the scheme of the instance: "http" or "https"
    authToken,          \* LSST_HTTP_AUTH_BEARER_TOKEN is set
    authPc,             \* "idle", "loop", "put_empty", "put_data" or "done"
    authMethod,         \* the method of the call
    authUrl,            \* the scheme of the URL the next request goes to
    authIter,           \* requests sent by the loop of _send_webdav_request
    authSent            \* the requests sent: method, scheme of the URL, Authorization

authVars == <<authEndpoint, authToken, authPc, authMethod, authUrl, authIter, authSent>>

vars == <<handleVars, transferVars, sessionVars, requestVars, walkVars, uriVars, davVars, probeVars, mkdirVars, raceVars, retryVars, authVars>>

\* ------------------------------------------------------------------ bytes
Min(a, b) == IF a < b THEN a ELSE b
Max(a, b) == IF a > b THEN a ELSE b

\* The remote resource: BodyLen bytes, all different, so that a byte tells
\* its offset.
Body == [i \in 1..BodyLen |-> i]

\* bytes[start : start + n] of Python (0-based start, n < 0 meaning "to the end")
Slice(bytes, start, n) ==
    LET first == Min(start, Len(bytes)) + 1
        last  == IF n < 0 THEN Len(bytes) ELSE Min(start + n, Len(bytes))
    IN  SubSeq(bytes, first, last)

\* io.BytesIO
NoBuffer == [isNone |-> TRUE, bytes |-> <<>>, pos |-> 0]
BytesIO(bytes, pos) == [isNone |-> FALSE, bytes |-> bytes, pos |-> pos]
\* BytesIO.read(size): the bytes from the buffer's own position
BytesIORead(buf, size) == Slice(buf.bytes, buf.pos, size)
\* BytesIO.seek(offset, whence) for the whence values seek() lets through
BytesIOSeek(buf, offset, whence) ==
    IF whence = SEEK_CUR THEN BytesIO(buf.bytes, Max(0, buf.pos + offset))
    ELSE BytesIO(buf.bytes, offset)

\* ------------------------------------------------------------ HTTP answers
NoAnswer == [code |-> 0, content |-> <<>>, contentRange |-> "absent"]
Answer(code, content, cr) == [code |-> code, content |-> content, contentRange |-> cr]

\* Answers to the GET without a Range header: the body, or an error status.
FullAnswers ==
    {Answer(ok, Body, "absent"), Answer(not_found, <<>>, "absent"),
     Answer(forbidden, <<>>, "absent")}

\* Answers to "Range: bytes=<pos>-<end_pos>" (end_pos empty when size < 0):
\*   a server that honours the range (206 with the bytes asked for and a
\*   Content-Range "bytes s-e/total", "bytes s-e/*" or none; 416 past the end;
\*   the whole body with 200 for the unsatisfiable syntax of size 0),
\*   a server that ignores the header (200 with the whole body),
\*   a server that honours the start only (206 with everything from pos on),
\*   and error statuses.
RangedAnswers(pos, size) ==
    LET honoured ==
            IF size = 0 THEN {Answer(ok, Body, "absent")}
            ELSE IF pos >= BodyLen THEN {Answer(range_not_satisfiable, <<>>, "absent")}
            ELSE {Answer(partial, Slice(Body, pos, size), cr) : cr \in {"total", "star", "absent"}}
        ignored == {Answer(ok, Body, "absent")}
        startOnly ==
            IF pos >= BodyLen THEN {}
            ELSE {Answer(partial, Slice(Body, pos, -1), "total")}
        errors == {Answer(not_found, <<>>, "absent"), Answer(forbidden, <<>>, "absent")}
    IN  honoured \cup ignored \cup startOnly \cup errors

\* ----------------------------------------------------------- no transfer
NoCall == [op |-> "none", src |-> "none", transfer |-> "none", overwrite |-> FALSE]
NoFrame == [target |-> "none", root |-> "A", rv |-> FALSE, level |-> 0, url |-> "none",
            data |-> "none"]

\* The state of the transfer part before any call, with nothing on the servers.
NoTransfer ==
    /\ pc = "idle"
    /\ stack = <<>>
    /\ call = NoCall
    /\ outcome = "none"
    /\ sent = <<>>
    /\ frame = NoFrame
    /\ isWebdavCache = [r \in {"A", "B"} |-> "unknown"]
    /\ debug = FALSE
    /\ tmpFile = FALSE
    /\ inAsLocal = FALSE
    /\ davServer = [r \in {"A", "B"} |-> TRUE]
    /\ remote = [src |-> "absent", dst |-> "absent", dirs |-> [l \in 0..Depth |-> "directory"]]

Instances == 1..NumInstances
Threads == 1..NumThreads
Kinds == {"metadata", "data"}
Authorities == {"A", "B"}
NoSession == 0
NoAccess == [inst |-> 0, kind |-> "none", pid |-> 0, session |-> NoSession]
NoResult == [key |-> "none", session |-> NoSession]

\* The class as imported: empty stores, instances constructed and not yet used.
NoSessions ==
    /\ pid = 1
    /\ instPid = [i \in Instances |-> -1]
    /\ instSession = [i \in Instances |-> [k \in Kinds |-> NoSession]]
    /\ sessions = [k \in Kinds |-> [a \in Authorities |-> NoSession]]
    /\ made = <<>>
    /\ lastSession = NoAccess
    /\ threadPc = [t \in Threads |-> "idle"]
    /\ threadKey = [t \in Threads |-> "none"]
    /\ threadMade = [t \in Threads |-> NoSession]
    /\ threadResult = [t \in Threads |-> NoResult]

\* No call of _send_webdav_request has been made.
NoRequest ==
    /\ reqPc = "idle"
    /\ reqMethod = "none"
    /\ reqHeaders = "none"
    /\ reqBody = "none"
    /\ reqUrl = "none"
    /\ reqIter = 0
    /\ reqSent = <<>>
    /\ reqOutcome = "none"

\* No directory is being walked; the server holds an empty root collection.
NoWalk ==
    /\ tree = [dirs |-> {<<>>}, files |-> {}]
    /\ walkStart = <<>>
    /\ walkStack = <<>>
    /\ walkYielded = <<>>
    /\ walkPc = "idle"
    /\ walkOutcome = "none"

\* No URI has been constructed.
NoUri ==
    /\ uri = [cls |-> "none", scheme |-> "", netloc |-> "", path |-> <<>>, dirLike |-> FALSE]
    /\ uriLog = <<>>

\* No property of a resource has been asked for.
NoDav ==
    /\ davCall = [op |-> "none", dirLike |-> FALSE, webdav |-> FALSE]
    /\ davAnswer = [code |-> 0, href |-> FALSE, propstats |-> <<>>, hasLength |-> FALSE,
                    length |-> 0]
    /\ davProp = [built |-> FALSE, collection |-> FALSE, getcontentlength |-> -1]
    /\ davOutcome = [raised |-> "none", value |-> 0, exists |-> FALSE]

\* The module as imported: nothing cached, no instance has asked.
ProbeRoots == {"A", "B", "C"}
NoProbe ==
    /\ lruCache = <<>>
    /\ isWebdav = [i \in 1..NumProbers |-> "none"]
    /\ optionsCount = 0
    /\ firstResult = [r \in ProbeRoots |-> "none"]
    /\ probeLast = [inst |-> 0, result |-> "none", sent |-> FALSE]

Callers == 1..NumCallers
\* No caller has called mkdir; only the root is a collection.
NoMkdir ==
    /\ mkDirs = [l \in 0..Depth |-> l = 0]
    /\ mkPc = [t \in Callers |-> "idle"]
    /\ mkLevel = [t \in Callers |-> Depth]
    /\ mkLast = [t \in Callers |-> [method |-> "none", level |-> 0, code |-> 0]]
    /\ mkFailed = [t \in Callers |-> FALSE]
    /\ mkOutcome = [t \in Callers |-> "none"]

\* No caller has written; the destination is absent.
NoRace ==
    /\ raceDst = 0
    /\ racePc = [t \in Callers |-> "idle"]
    /\ raceOp = [t \in Callers |-> "none"]
    /\ raceUploads = <<>>
    /\ raceOutcome = [t \in Callers |-> "none"]

\* No request has been sent; the Retry object is as _make_session configures it.
NoRetry ==
    /\ retryMethod = "none"
    /\ retries = [total |-> RetryTotal, connect |-> RetryConnect, read |-> RetryRead,
                  status |-> RetryStatus]
    /\ retried = [total |-> 0, connect |-> 0, read |-> 0, status |-> 0]
    /\ retryCause = [kind |-> "none", code |-> 0, retryAfter |-> FALSE]
    /\ retryOutcome = "none"

\* An instance of a plain http endpoint, no token, no request sent.
NoAuth ==
    /\ authEndpoint = "http"
    /\ authToken = FALSE
    /\ authPc = "idle"
    /\ authMethod = "none"
    /\ authUrl = "none"
    /\ authIter = 0
    /\ authSent = <<>>

\* ------------------------------------------------- HttpReadResourceHandle
Call(op, size, answer, result, raised) ==
    [op |-> op, arg |-> size, position |-> current_position, answer |-> answer,
     result |-> result, raised |-> raised]

InitHandle ==
    /\ completeBuffer = NoBuffer
    /\ current_position = 0
    /\ eof = FALSE
    /\ closed = FALSE
    /\ handleRequests = 0
    /\ wholeRead = FALSE
    /\ handleLast = [op |-> "init", arg |-> 0, position |-> 0, answer |-> NoAnswer,
                     result |-> <<>>, raised |-> FALSE]

\* read(), self._eof set: an empty byte string, no request.
ReadAtEof(size) ==
    /\ handleLast' = Call("read", size, NoAnswer, <<>>, FALSE)
    /\ UNCHANGED <<completeBuffer, current_position, eof, closed, handleRequests, wholeRead>>

\* read(), the complete file has been read before: served from the buffer.
ReadBuffered(size) ==
    LET result == BytesIORead(completeBuffer, size) IN
    /\ completeBuffer' = BytesIO(completeBuffer.bytes, completeBuffer.pos + Len(result))
    /\ current_position' = current_position + Len(result)
    /\ handleLast' = Call("read", size, NoAnswer, result, FALSE)
    /\ UNCHANGED <<eof, closed, handleRequests, wholeRead>>

\* read(-1) at position 0: the whole file is requested and kept.
ReadWhole(size) ==
    /\ handleRequests < MaxRequests
    /\ handleRequests' = handleRequests + 1
    /\ \E resp \in FullAnswers :
        IF resp.code \notin {ok, partial}
        THEN \* FileNotFoundError, raised after the empty BytesIO was installed
             /\ completeBuffer' = BytesIO(<<>>, 0)
             /\ handleLast' = Call("read", size, resp, <<>>, TRUE)
             /\ UNCHANGED <<current_position, eof, closed, wholeRead>>
        ELSE /\ completeBuffer' = BytesIO(resp.content, Len(resp.content))
             /\ wholeRead' = TRUE
             /\ current_position' = Len(resp.content)
             /\ handleLast' = Call("read", size, resp, resp.content, FALSE)
             /\ UNCHANGED <<eof, closed>>

\* (mutant) 416 handled by the general status check: FileNotFoundError.
RangeNotSatisfiableRaises(size, resp) ==
    /\ handleLast' = Call("read", size, resp, <<>>, TRUE)
    /\ UNCHANGED <<completeBuffer, current_position, eof, closed, wholeRead>>

\* 416: end of file, the position does not change.
RangeNotSatisfiable(size, resp) ==
    /\ eof' = TRUE
    /\ handleLast' = Call("read", size, resp, <<>>, FALSE)
    /\ UNCHANGED <<completeBuffer, current_position, closed, wholeRead>>

\* More bytes than asked for, or no 206: the content becomes the complete
\* buffer, rewound to 0, and the read is done again on it (self.read(size)).
FallBackToBuffer(size, resp) ==
    LET buffer == BytesIO(resp.content, 0)
        result == BytesIORead(buffer, size)
    IN  /\ completeBuffer' = BytesIO(buffer.bytes, buffer.pos + Len(result))
        /\ current_position' = current_position + Len(result)
        /\ handleLast' = Call("read", size, resp, result, FALSE)
        /\ UNCHANGED <<eof, closed, wholeRead>>

\* end_pos >= total - 1 read from "Content-Range: bytes s-e/total"
ContentRangeAtEnd(resp) ==
    /\ resp.contentRange = "total"
    /\ current_position + Len(resp.content) - 1 >= BodyLen - 1

\* A 206 with at most size bytes: the content is returned.
PartialContent(size, resp) ==
    /\ eof' = (ContentRangeAtEnd(resp) \/ Len(resp.content) < size)
    /\ current_position' = current_position + Len(resp.content)
    /\ handleLast' = Call("read", size, resp, resp.content, FALSE)
    /\ UNCHANGED <<completeBuffer, closed, wholeRead>>

\* read(size) with a Range header.
ReadRanged(size) ==
    /\ handleRequests < MaxRequests
    /\ handleRequests' = handleRequests + 1
    /\ \E resp \in RangedAnswers(current_position, size) :
        IF resp.code = range_not_satisfiable THEN RangeNotSatisfiable(size, resp)
        ELSE IF resp.code \notin {ok, partial}
        THEN /\ handleLast' = Call("read", size, resp, <<>>, TRUE)
             /\ UNCHANGED <<completeBuffer, current_position, eof, closed, wholeRead>>
        ELSE IF Len(resp.content) > size \/ resp.code # partial
        THEN FallBackToBuffer(size, resp)
        ELSE PartialContent(size, resp)

\* (mutant) the whole-file branch tested before the buffer branch.
ReadWholeBeforeBuffer(size) ==
    /\ IF eof THEN ReadAtEof(size)
       ELSE IF size = -1 /\ current_position = 0 THEN ReadWhole(size)
       ELSE IF ~completeBuffer.isNone THEN ReadBuffered(size)
       ELSE ReadRanged(size)
    /\ UNCHANGED <<transferVars, sessionVars, requestVars, walkVars, uriVars, davVars, probeVars, mkdirVars, raceVars, retryVars, authVars>>

Read(size) ==
    /\ IF eof THEN ReadAtEof(size)
       ELSE IF ~completeBuffer.isNone THEN ReadBuffered(size)
       ELSE IF size = -1 /\ current_position = 0 THEN ReadWhole(size)
       ELSE ReadRanged(size)
    /\ UNCHANGED <<transferVars, sessionVars, requestVars, walkVars, uriVars, davVars, probeVars, mkdirVars, raceVars, retryVars, authVars>>

SeekPosition(offset, whence) ==
    /\ IF whence = SEEK_CUR /\ current_position + offset >= 0
       THEN current_position' = current_position + offset
       ELSE IF whence = SEEK_SET /\ offset >= 0
       THEN current_position' = offset
       ELSE current_position' = current_position
    /\ current_position' <= MaxPosition
    /\ LET valid == \/ (whence = SEEK_CUR /\ current_position + offset >= 0)
                    \/ (whence = SEEK_SET /\ offset >= 0)
       IN  /\ completeBuffer' =
                IF valid /\ ~completeBuffer.isNone
                THEN BytesIOSeek(completeBuffer, current_position', whence)
                ELSE completeBuffer
           /\ completeBuffer'.pos <= MaxPosition
           /\ handleLast' = [op |-> "seek", arg |-> offset, position |-> current_position,
                             answer |-> NoAnswer, result |-> <<>>, raised |-> ~valid]
    /\ UNCHANGED <<closed, handleRequests, wholeRead>>
    /\ UNCHANGED <<transferVars, sessionVars, requestVars, walkVars, uriVars, davVars, probeVars, mkdirVars, raceVars, retryVars, authVars>>

\* (mutant) seek that leaves the end-of-file flag as it is.
SeekKeepsEof(offset, whence) ==
    /\ UNCHANGED eof
    /\ SeekPosition(offset, whence)

Seek(offset, whence) ==
    /\ eof' = FALSE
    /\ SeekPosition(offset, whence)

Close ==
    /\ closed' = TRUE
    /\ completeBuffer' = NoBuffer
    /\ eof' = TRUE
    /\ wholeRead' = FALSE
    /\ handleLast' = Call("close", 0, NoAnswer, <<>>, FALSE)
    /\ UNCHANGED <<current_position, handleRequests>>
    /\ UNCHANGED <<transferVars, sessionVars, requestVars, walkVars, uriVars, davVars, probeVars, mkdirVars, raceVars, retryVars, authVars>>

Sizes == {-1} \cup (0..MaxSize)
Offsets == (-2)..MaxSeek

NextHandle ==
    \/ \E size \in Sizes : Read(size)
    \/ \E offset \in Offsets, whence \in {SEEK_SET, SEEK_CUR, SEEK_END} : Seek(offset, whence)
    \/ Close

InitHandleOnly == InitHandle /\ NoTransfer /\ NoSessions /\ NoRequest /\ NoWalk /\ NoUri /\ NoDav /\ NoProbe /\ NoMkdir /\ NoRace /\ NoRetry /\ NoAuth

SpecHandle == InitHandleOnly /\ [][NextHandle]_vars

\* ----------------------------------------------------- claims on the handle
LastRead == handleLast.op = "read"

\* C4: a sized read(N) at offset K that a range-ignoring server answers with
\* the whole body and 200, or with more than N bytes, returns exactly the
\* bytes K .. K+N-1 of the resource and leaves tell() at K plus their number.
C4_SizedReadExactWhenRangeIgnored ==
    (/\ LastRead
     /\ handleLast.arg >= 0
     /\ handleLast.answer.code \in {ok, partial}
     /\ \/ (handleLast.answer.code = ok /\ handleLast.answer.content = Body)
        \/ Len(handleLast.answer.content) > handleLast.arg)
    => /\ handleLast.result = Slice(Body, handleLast.position, handleLast.arg)
       /\ current_position = handleLast.position + Len(handleLast.result)

\* C5: after a successful unranged read (read(-1) at position 0) the whole
\* body is buffered, and no later read or seek sends a request while the
\* handle stays open.
C5_NoRequestAfterWholeRead ==
    /\ [](wholeRead => (~completeBuffer.isNone /\ completeBuffer.bytes = Body))
    /\ [][(wholeRead /\ ~closed) => handleRequests' = handleRequests]_vars

C5_Witness ==
    /\ wholeRead
    /\ LastRead
    /\ handleLast.answer = NoAnswer
    /\ Len(handleLast.result) > 0

\* C6: a sized read of N bytes at offset K answered 416 returns empty bytes,
\* raises nothing and leaves tell() at K.
C6_RangeNotSatisfiableIsEof ==
    (LastRead /\ handleLast.answer.code = range_not_satisfiable)
    => /\ handleLast.result = <<>>
       /\ ~handleLast.raised
       /\ current_position = handleLast.position

C6_Witness ==
    /\ LastRead
    /\ handleLast.answer.code = range_not_satisfiable
    /\ handleLast.arg > 0
    /\ handleLast.position >= BodyLen
    /\ current_position = handleLast.position

\* C7: once end of file is set, every read returns empty bytes without a
\* request and leaves end of file set; a seek clears it, and the read that
\* follows a seek on an unbuffered handle sends a request again.
C7_EofUntilSeek ==
    /\ [][(eof /\ handleLast'.op = "read")
            => (/\ handleLast'.result = <<>>
                /\ ~handleLast'.raised
                /\ handleRequests' = handleRequests
                /\ eof')]_vars
    /\ [][handleLast'.op = "seek" => ~eof']_vars
    /\ [][(handleLast.op = "seek" /\ handleLast'.op = "read" /\ completeBuffer.isNone)
            => handleRequests' = handleRequests + 1]_vars

C7_Witness ==
    /\ eof
    /\ ~closed
    /\ LastRead
    /\ handleLast.answer = NoAnswer
    /\ handleLast.arg > 0
    /\ handleRequests > 0

\* C37: once the body is buffered, the position of the buffer and the
\* handle's current position (what tell() returns) agree after every read and
\* seek, so that tell() is the offset of the next byte read() returns.
C37_TellIsNextByte ==
    ~completeBuffer.isNone => completeBuffer.pos = current_position

\* C38: a complete buffer filled from a 200 or 206 answer holds the entire
\* remote body starting at offset 0 (so that seek(0) followed by read(N) on it
\* returns the first N bytes of the resource).
C38_BufferHoldsWholeBody ==
    (~completeBuffer.isNone /\ completeBuffer.bytes # <<>>) => completeBuffer.bytes = Body

\* C39: when the unranged full read (read(-1) at position 0) is answered with
\* a status other than 200 or 206, read raises and leaves the handle as it
\* was: no buffer is installed and the position stays 0.
C39_FailedWholeReadLeavesHandle ==
    (/\ LastRead
     /\ handleLast.arg = -1
     /\ handleLast.position = 0
     /\ handleLast.answer.code \notin {0, ok, partial, range_not_satisfiable})
    => /\ handleLast.raised
       /\ completeBuffer.isNone
       /\ current_position = 0

\* ------------------------------------------- HttpResourcePath: the servers
\* Root "A" is the authority of the destination, "B" another authority. The
\* destination file "dst" lies in the directory of level Depth under the root
\* (level 0) of "A"; "src" is the source file of transfer_from.
Roots == {"A", "B"}
transferModes == {"copy", "auto", "move"}
transferDefault == "copy"
Modes == transferModes \cup {"link", "hardlink", "symlink", "relsymlink"}

\* The resource a request for `target` reaches, and its authority.
Resource(target) == IF target = "src" /\ call.src = "self" THEN "dst" ELSE target
RootOf(target) == IF target = "src" /\ call.src = "otherRoot" THEN "B" ELSE "A"

FileUrl(res) == <<"file", res>>
DirUrl(level) == <<"dir", level>>
RootUrl(root) == <<"root", root>>

\* A request and the answer to it: the status (0: the transport raised) and,
\* for a PROPFIND, whether the 207 carries the properties of the resource.
Request(method, url, body, resp) ==
    [method |-> method, url |-> url, body |-> body, code |-> resp.code,
     exists |-> resp.exists]
Send(method, url, body, resp) == sent' = Append(sent, Request(method, url, body, resp))

\* An answer: a status code, or no answer at all (the transport raised).
Status(code) == [raised |-> FALSE, code |-> code, dav |-> FALSE, exists |-> FALSE]
TransportError == [raised |-> TRUE, code |-> 0, dav |-> FALSE, exists |-> FALSE]
Failures == {Status(forbidden), TransportError}

\* OPTIONS on a root: 200 with or without "DAV: 1".
OptionsAnswers(root) == {[Status(ok) EXCEPT !.dav = davServer[root]]} \cup Failures

\* HEAD on a file.
HeadAnswers(res) ==
    {IF remote[res] # "absent" THEN Status(ok) ELSE Status(not_found)} \cup Failures

\* PROPFIND (Depth: 0) on a file: 207 with the properties under a 200 OK
\* propstat when it is there; 404, or a 207 without them, when it is not.
PropfindAnswers(res) ==
    (IF remote[res] # "absent"
     THEN {[Status(multi_status) EXCEPT !.exists = TRUE]}
     ELSE {Status(not_found), Status(multi_status)}) \cup Failures

\* PROPFIND (Depth: 0) on the directory of a level.
PropfindDirAnswers(level) ==
    (IF remote.dirs[level] # "absent"
     THEN {[Status(multi_status) EXCEPT !.exists = TRUE]}
     ELSE {Status(not_found), Status(multi_status)}) \cup Failures

\* ------------------------------------------------ HttpResourcePath: control
\* The call goes on at `label`.
Goto(label) ==
    /\ pc' = label
    /\ UNCHANGED <<stack, outcome, tmpFile, inAsLocal>>

\* A callee is entered; the caller goes on at `ret` when it returns.
Enter(label, ret) ==
    /\ pc' = label
    /\ stack' = <<ret>> \o stack
    /\ UNCHANGED <<outcome, tmpFile, inAsLocal>>

Return ==
    /\ pc' = Head(stack)
    /\ stack' = Tail(stack)
    /\ UNCHANGED <<outcome, tmpFile, inAsLocal>>

\* An exception leaves the call; on the way out of "with src.as_local()" the
\* finally clause of as_local removes the temporary file.
Raise(exception) ==
    /\ pc' = "done"
    /\ stack' = <<>>
    /\ outcome' = exception
    /\ inAsLocal' = FALSE
    /\ tmpFile' = IF inAsLocal THEN FALSE ELSE tmpFile

Finish ==
    /\ pc' = "done"
    /\ stack' = <<>>
    /\ outcome' = "returned"
    /\ UNCHANGED <<tmpFile, inAsLocal>>

\* is_webdav_endpoint of `root` is evaluated, then the call goes on at `ret`:
\* an OPTIONS probe only when no result is cached for the root.
EnterIsWebdav(root, ret) ==
    IF isWebdavCache[root] = "unknown" THEN Enter("options", ret) ELSE Goto(ret)

\* exists() of `target` on `root` is called with the locals f; its result is in frame.rv
\* at `ret`.
EnterExists(f, target, root, ret) ==
    /\ frame' = [f EXCEPT !.target = target, !.root = root]
    /\ IF isWebdavCache[root] = "unknown"
       THEN /\ pc' = "options"
            /\ stack' = <<"exists_probe", ret>> \o stack
            /\ UNCHANGED <<outcome, tmpFile, inAsLocal>>
       ELSE Enter("exists_probe", ret)

\* _is_webdav_endpoint: the OPTIONS probe of frame.root.
Options ==
    /\ pc = "options"
    /\ \E resp \in OptionsAnswers(frame.root) :
        /\ Send("OPTIONS", RootUrl(frame.root), "none", resp)
        /\ IF resp.raised
           THEN Raise("ConnectionError") /\ UNCHANGED isWebdavCache
           ELSE IF resp.code \notin {ok, created}
           THEN Raise("ValueError") /\ UNCHANGED isWebdavCache
           ELSE /\ isWebdavCache' =
                    [isWebdavCache EXCEPT ![frame.root] = IF resp.dav THEN "dav" ELSE "plain"]
                /\ Return
    /\ UNCHANGED <<call, frame, debug, davServer, remote>>
    /\ UNCHANGED <<handleVars, sessionVars, requestVars, walkVars, uriVars, davVars, probeVars, mkdirVars, raceVars, retryVars, authVars>>

\* exists(): HEAD on a plain HTTP endpoint, PROPFIND on a WebDAV endpoint.
ExistsProbe ==
    /\ pc = "exists_probe"
    /\ IF isWebdavCache[frame.root] = "plain"
       THEN \E resp \in HeadAnswers(Resource(frame.target)) :
                /\ Send("HEAD", FileUrl(Resource(frame.target)), "none", resp)
                /\ IF resp.raised
                   THEN Raise("ConnectionError") /\ UNCHANGED frame
                   ELSE /\ frame' = [frame EXCEPT !.rv = (resp.code = ok)]
                        /\ Return
       ELSE \E resp \in PropfindAnswers(Resource(frame.target)) :
                /\ Send("PROPFIND", FileUrl(Resource(frame.target)), "none", resp)
                /\ IF resp.raised
                   THEN Raise("ConnectionError") /\ UNCHANGED frame
                   ELSE IF resp.code \notin {multi_status, not_found}
                   THEN Raise("ValueError") /\ UNCHANGED frame
                   ELSE /\ frame' = [frame EXCEPT
                                        !.rv = (resp.code = multi_status /\ resp.exists)]
                        /\ Return
    /\ UNCHANGED <<call, isWebdavCache, debug, davServer, remote>>
    /\ UNCHANGED <<handleVars, sessionVars, requestVars, walkVars, uriVars, davVars, probeVars, mkdirVars, raceVars, retryVars, authVars>>

\* ---------------------------------------------- HttpResourcePath: servers 2
DirOk(level) == level < 0 \/ remote.dirs[level] = "directory"

\* MKCOL on the directory of a level: 405 when something is there, 409 when
\* its parent is missing, else the directory is created (201).
MkcolAnswers(level) ==
    {IF remote.dirs[level] # "absent" THEN Status(method_not_allowed)
     ELSE IF ~DirOk(level - 1) THEN Status(conflict)
     ELSE Status(created)} \cup Failures

\* PUT on the destination: a redirect to a back end, or the file is stored
\* (201) when its directory exists and refused (409) when it does not.
PutAnswers ==
    {Status(temporary_redirect),
     IF DirOk(Depth) THEN Status(created) ELSE Status(conflict)} \cup Failures

\* The PUT with the payload, sent to the URL the first PUT led to: the URL of
\* a redirection may itself be a hop of a chain and redirect again.
PutDataAnswers(url) ==
    {IF DirOk(Depth) THEN Status(created) ELSE Status(conflict)} \cup Failures
    \cup (IF url = "redirect" THEN {Status(temporary_redirect)} ELSE {})

IsRedirect(resp) == resp.code = temporary_redirect

\* ------------------------------------------------- HttpResourcePath.mkdir
\* self.parent().mkdir() is called with the locals f; the call goes on at the
\* labels of `rest` afterwards.
EnterMkdir(f, rest) ==
    /\ frame' = [f EXCEPT !.level = Depth, !.root = "A"]
    /\ IF isWebdavCache["A"] = "unknown"
       THEN pc' = "options" /\ stack' = <<"mkdir_entry">> \o rest
       ELSE pc' = "mkdir_entry" /\ stack' = rest
    /\ UNCHANGED <<outcome, tmpFile, inAsLocal>>

\* mkdir(): only on WebDAV endpoints.
MkdirEntry ==
    /\ pc = "mkdir_entry"
    /\ IF isWebdavCache["A"] = "plain"
       THEN Raise("NotImplementedError")
       ELSE Goto("mkdir_propfind")
    /\ UNCHANGED <<call, sent, frame, isWebdavCache, debug, davServer, remote>>
    /\ UNCHANGED <<handleVars, sessionVars, requestVars, walkVars, uriVars, davVars, probeVars, mkdirVars, raceVars, retryVars, authVars>>

\* mkdir() of the directory of frame.level returns: its child is created
\* next, or the caller of the outermost mkdir() goes on.
MkdirReturn ==
    IF frame.level = Depth
    THEN Return /\ UNCHANGED frame
    ELSE /\ frame' = [frame EXCEPT !.level = frame.level + 1]
         /\ Goto("mkdir_mkcol")

\* (mutant) MKCOL is sent for a directory that the PROPFIND showed.
MkdirPropfindThenMkcol ==
    /\ pc = "mkdir_propfind"
    /\ \E resp \in PropfindDirAnswers(frame.level) :
        /\ Send("PROPFIND", DirUrl(frame.level), "none", resp)
        /\ IF resp.raised
           THEN Raise("ConnectionError") /\ UNCHANGED frame
           ELSE IF resp.code \notin {multi_status, not_found}
           THEN Raise("ValueError") /\ UNCHANGED frame
           ELSE IF resp.code = multi_status /\ resp.exists
           THEN IF remote.dirs[frame.level] = "directory"
                THEN Goto("mkdir_mkcol") /\ UNCHANGED frame
                ELSE Raise("NotADirectoryError") /\ UNCHANGED frame
           ELSE IF frame.level > 0
           THEN /\ frame' = [frame EXCEPT !.level = frame.level - 1]
                /\ Goto("mkdir_propfind")
           ELSE Goto("mkdir_mkcol") /\ UNCHANGED frame
    /\ UNCHANGED <<call, isWebdavCache, debug, davServer, remote>>
    /\ UNCHANGED <<handleVars, sessionVars, requestVars, walkVars, uriVars, davVars, probeVars, mkdirVars, raceVars, retryVars, authVars>>

\* mkdir(): does the directory exist? If not, its parent first.
MkdirPropfind ==
    /\ pc = "mkdir_propfind"
    /\ \E resp \in PropfindDirAnswers(frame.level) :
        /\ Send("PROPFIND", DirUrl(frame.level), "none", resp)
        /\ IF resp.raised
           THEN Raise("ConnectionError") /\ UNCHANGED frame
           ELSE IF resp.code \notin {multi_status, not_found}
           THEN Raise("ValueError") /\ UNCHANGED frame
           ELSE IF resp.code = multi_status /\ resp.exists
           THEN IF remote.dirs[frame.level] = "directory"
                THEN MkdirReturn
                ELSE Raise("NotADirectoryError") /\ UNCHANGED frame
           ELSE IF frame.level > 0
           THEN /\ frame' = [frame EXCEPT !.level = frame.level - 1]
                /\ Goto("mkdir_propfind")
           ELSE Goto("mkdir_mkcol") /\ UNCHANGED frame
    /\ UNCHANGED <<call, isWebdavCache, debug, davServer, remote>>
    /\ UNCHANGED <<handleVars, sessionVars, requestVars, walkVars, uriVars, davVars, probeVars, mkdirVars, raceVars, retryVars, authVars>>

\* _mkcol(): 201, or 405 for a directory that is already there.
MkdirMkcol ==
    /\ pc = "mkdir_mkcol"
    /\ \E resp \in MkcolAnswers(frame.level) :
        /\ Send("MKCOL", DirUrl(frame.level), "none", resp)
        /\ remote' = IF ~resp.raised /\ resp.code = created
                     THEN [remote EXCEPT !.dirs[frame.level] = "directory"]
                     ELSE remote
        /\ IF resp.raised
           THEN Raise("ConnectionError") /\ UNCHANGED frame
           ELSE IF resp.code \in {created, method_not_allowed}
           THEN MkdirReturn
           ELSE Raise("ValueError") /\ UNCHANGED frame
    /\ UNCHANGED <<call, isWebdavCache, debug, davServer>>
    /\ UNCHANGED <<handleVars, sessionVars, requestVars, walkVars, uriVars, davVars, probeVars, mkdirVars, raceVars, retryVars, authVars>>

\* --------------------------------------------------- HttpResourcePath._put
\* (mutant) the Location of a redirect is not taken up.
PutEmptyKeepsUrl ==
    /\ pc = "put_empty"
    /\ \E resp \in PutAnswers :
        /\ Send("PUT", FileUrl("dst"), "empty", resp)
        /\ remote' = IF ~resp.raised /\ resp.code = created
                     THEN [remote EXCEPT !.dst = "empty"]
                     ELSE remote
        /\ IF resp.raised
           THEN Raise("ConnectionError") /\ UNCHANGED frame
           ELSE /\ frame' = [frame EXCEPT !.url = "dst"]
                /\ Goto("put_data")
    /\ UNCHANGED <<call, isWebdavCache, debug, davServer>>
    /\ UNCHANGED <<handleVars, sessionVars, requestVars, walkVars, uriVars, davVars, probeVars, mkdirVars, raceVars, retryVars, authVars>>

\* The PUT without content, which finds the URL the data has to go to.
PutEmpty ==
    /\ pc = "put_empty"
    /\ \E resp \in PutAnswers :
        /\ Send("PUT", FileUrl("dst"), "empty", resp)
        /\ remote' = IF ~resp.raised /\ resp.code = created
                     THEN [remote EXCEPT !.dst = "empty"]
                     ELSE remote
        /\ IF resp.raised
           THEN Raise("ConnectionError") /\ UNCHANGED frame
           ELSE /\ frame' = [frame EXCEPT !.url = IF IsRedirect(resp) THEN "redirect" ELSE "dst"]
                /\ Goto("put_data")
    /\ UNCHANGED <<call, isWebdavCache, debug, davServer>>
    /\ UNCHANGED <<handleVars, sessionVars, requestVars, walkVars, uriVars, davVars, probeVars, mkdirVars, raceVars, retryVars, authVars>>

\* (mutant) the status of the PUT with the data is not looked at.
PutDataUnchecked ==
    /\ pc = "put_data"
    /\ \E resp \in PutDataAnswers(frame.url) :
        /\ Send("PUT", FileUrl(frame.url), frame.data, resp)
        /\ remote' = IF ~resp.raised /\ resp.code = created
                     THEN [remote EXCEPT !.dst = frame.data]
                     ELSE remote
        /\ IF resp.raised THEN Raise("ConnectionError") ELSE Return
    /\ UNCHANGED <<call, frame, isWebdavCache, debug, davServer>>
    /\ UNCHANGED <<handleVars, sessionVars, requestVars, walkVars, uriVars, davVars, probeVars, mkdirVars, raceVars, retryVars, authVars>>

\* The PUT with the data, to the URL found.
PutData ==
    /\ pc = "put_data"
    /\ \E resp \in PutDataAnswers(frame.url) :
        /\ Send("PUT", FileUrl(frame.url), frame.data, resp)
        /\ remote' = IF ~resp.raised /\ resp.code = created
                     THEN [remote EXCEPT !.dst = frame.data]
                     ELSE remote
        /\ IF resp.raised
           THEN Raise("ConnectionError")
           ELSE IF resp.code \in {ok, created, no_content}
           THEN Return
           ELSE Raise("ValueError")
    /\ UNCHANGED <<call, frame, isWebdavCache, debug, davServer>>
    /\ UNCHANGED <<handleVars, sessionVars, requestVars, walkVars, uriVars, davVars, probeVars, mkdirVars, raceVars, retryVars, authVars>>

\* ------------------------------------------------- HttpResourcePath.write
\* write(data, overwrite): the existence check when overwrite is off, else
\* straight to the parent directory and the upload.
Write(overwrite) ==
    /\ pc = "idle"
    /\ call' = [op |-> "write", src |-> "none", transfer |-> "none", overwrite |-> overwrite]
    /\ IF ~overwrite
       THEN EnterExists([frame EXCEPT !.data = "written"], "dst", "A", "write_checked")
       ELSE EnterMkdir([frame EXCEPT !.data = "written"], <<"put_empty", "finish">>)
    /\ UNCHANGED <<sent, isWebdavCache, debug, davServer, remote>>
    /\ UNCHANGED <<handleVars, sessionVars, requestVars, walkVars, uriVars, davVars, probeVars, mkdirVars, raceVars, retryVars, authVars>>

\* write(): "if self.exists(): raise FileExistsError".
WriteChecked ==
    /\ pc = "write_checked"
    /\ IF frame.rv
       THEN Raise("FileExistsError") /\ UNCHANGED frame
       ELSE EnterMkdir(frame, <<"put_empty", "finish">>)
    /\ UNCHANGED <<call, sent, isWebdavCache, debug, davServer, remote>>
    /\ UNCHANGED <<handleVars, sessionVars, requestVars, walkVars, uriVars, davVars, probeVars, mkdirVars, raceVars, retryVars, authVars>>

\* The call returns to its caller.
Finished ==
    /\ pc = "finish"
    /\ Finish
    /\ UNCHANGED <<call, sent, frame, isWebdavCache, debug, davServer, remote>>
    /\ UNCHANGED <<handleVars, sessionVars, requestVars, walkVars, uriVars, davVars, probeVars, mkdirVars, raceVars, retryVars, authVars>>

\* ---------------------------------------------- HttpResourcePath: servers 3
\* GET on the source file.
GetAnswers(res) ==
    {IF remote[res] # "absent" THEN Status(ok) ELSE Status(not_found)} \cup Failures

\* How the body of the GET arrives: whole; cut short with an exception of the
\* transport; cut short silently under a Content-Length header, which the
\* length check detects; cut short silently without one (or encoded).
Downloads == {"complete", "interrupted", "short_detected", "short_undetected"}

\* DELETE on the source file.
DeleteAnswers(res) ==
    {IF remote[res] # "absent" THEN Status(no_content) ELSE Status(not_found)} \cup Failures

\* MOVE of the source file to the destination.
MoveAnswers(res) ==
    {IF remote[res] = "absent" THEN Status(not_found)
     ELSE IF ~DirOk(Depth) THEN Status(conflict)
     ELSE Status(created)} \cup Failures

\* ----------------------------------- HttpResourcePath._as_local / as_local
\* _as_local(): GET of the source; the temporary file is created once the
\* status is 200.
AsLocalGet ==
    /\ pc = "as_local_get"
    /\ \E resp \in GetAnswers(Resource("src")) :
        /\ Send("GET", FileUrl(Resource("src")), "none", resp)
        /\ IF resp.raised THEN Raise("ConnectionError")
           ELSE IF resp.code # ok THEN Raise("FileNotFoundError")
           ELSE /\ pc' = "as_local_body"
                /\ tmpFile' = TRUE
                /\ UNCHANGED <<stack, outcome, inAsLocal>>
    /\ UNCHANGED <<call, frame, isWebdavCache, debug, davServer, remote>>
    /\ UNCHANGED <<handleVars, sessionVars, requestVars, walkVars, uriVars, davVars, probeVars, mkdirVars, raceVars, retryVars, authVars>>

\* _as_local(): the body is written to the temporary file and its length
\* compared with Content-Length; then as_local() yields the file and
\* _copy_via_local() opens it for the upload.
AsLocalBody ==
    /\ pc = "as_local_body"
    /\ \E download \in Downloads :
        IF download = "interrupted" THEN Raise("ConnectionError") /\ UNCHANGED frame
        ELSE IF download = "short_detected" THEN Raise("ValueError") /\ UNCHANGED frame
        ELSE /\ frame' = [frame EXCEPT !.data = IF download = "complete"
                                                THEN remote[Resource("src")]
                                                ELSE "truncated"]
             /\ pc' = "put_empty"
             /\ stack' = <<"uploaded">> \o stack
             /\ inAsLocal' = TRUE
             /\ UNCHANGED <<outcome, tmpFile>>
    /\ UNCHANGED <<call, sent, isWebdavCache, debug, davServer, remote>>
    /\ UNCHANGED <<handleVars, sessionVars, requestVars, walkVars, uriVars, davVars, probeVars, mkdirVars, raceVars, retryVars, authVars>>

\* --------------------------------------------------- _delete and _move
\* remove() of the file "src": "self._delete()".
Remove ==
    /\ pc = "idle"
    /\ call' = [op |-> "remove", src |-> "sameRoot", transfer |-> "none", overwrite |-> FALSE]
    /\ Goto("delete")
    /\ UNCHANGED <<sent, frame, isWebdavCache, debug, davServer, remote>>
    /\ UNCHANGED <<handleVars, sessionVars, requestVars, walkVars, uriVars, davVars, probeVars, mkdirVars, raceVars, retryVars, authVars>>

\* src.remove(): DELETE; 404 is taken as done.
Delete ==
    /\ pc = "delete"
    /\ \E resp \in DeleteAnswers(Resource("src")) :
        /\ Send("DELETE", FileUrl(Resource("src")), "none", resp)
        /\ remote' = IF ~resp.raised /\ resp.code = no_content
                     THEN [remote EXCEPT ![Resource("src")] = "absent"]
                     ELSE remote
        /\ IF resp.raised THEN Raise("ConnectionError")
           ELSE IF resp.code \in {ok, accepted, no_content, not_found} THEN Finish
           ELSE Raise("ValueError")
    /\ UNCHANGED <<call, frame, isWebdavCache, debug, davServer>>
    /\ UNCHANGED <<handleVars, sessionVars, requestVars, walkVars, uriVars, davVars, probeVars, mkdirVars, raceVars, retryVars, authVars>>

\* _move(): the native MOVE of WebDAV, sent to the source URL.
Move ==
    /\ pc = "move"
    /\ \E resp \in MoveAnswers(Resource("src")) :
        /\ Send("MOVE", FileUrl(Resource("src")), "none", resp)
        /\ remote' = IF ~resp.raised /\ resp.code = created
                     THEN [remote EXCEPT !.dst = remote[Resource("src")],
                                         ![Resource("src")] = "absent"]
                     ELSE remote
        /\ IF resp.raised THEN Raise("ConnectionError")
           ELSE IF resp.code \in {created, no_content} THEN Finish
           ELSE Raise("ValueError")
    /\ UNCHANGED <<call, frame, isWebdavCache, debug, davServer>>
    /\ UNCHANGED <<handleVars, sessionVars, requestVars, walkVars, uriVars, davVars, probeVars, mkdirVars, raceVars, retryVars, authVars>>

\* ----------------------------------------- HttpResourcePath.transfer_from
Sources == {"self", "sameRoot", "otherRoot"}
SourceRoot(src) == IF src = "otherRoot" THEN "B" ELSE "A"

\* (mutant) the mode is checked after the debug message has been built.
TransferFromModeLate(src, transfer, overwrite) ==
    /\ pc = "idle"
    /\ call' = [op |-> "transfer_from", src |-> src, transfer |-> transfer,
                overwrite |-> overwrite]
    /\ IF debug
       THEN EnterExists(frame, "src", SourceRoot(src), "debug_dst")
       ELSE IF transfer \notin transferModes
       THEN Raise("ValueError") /\ UNCHANGED frame
       ELSE Goto("same") /\ UNCHANGED frame
    /\ UNCHANGED <<sent, isWebdavCache, debug, davServer, remote>>
    /\ UNCHANGED <<handleVars, sessionVars, requestVars, walkVars, uriVars, davVars, probeVars, mkdirVars, raceVars, retryVars, authVars>>

\* transfer_from(src, transfer, overwrite): the mode is checked first; with
\* debug logging on, the log message then evaluates src.exists() and
\* self.exists().
TransferFrom(src, transfer, overwrite) ==
    /\ pc = "idle"
    /\ call' = [op |-> "transfer_from", src |-> src, transfer |-> transfer,
                overwrite |-> overwrite]
    /\ IF transfer \notin transferModes
       THEN Raise("ValueError") /\ UNCHANGED frame
       ELSE IF debug
       THEN EnterExists(frame, "src", SourceRoot(src), "debug_dst")
       ELSE Goto("same") /\ UNCHANGED frame
    /\ UNCHANGED <<sent, isWebdavCache, debug, davServer, remote>>
    /\ UNCHANGED <<handleVars, sessionVars, requestVars, walkVars, uriVars, davVars, probeVars, mkdirVars, raceVars, retryVars, authVars>>

TransferDebugDst ==
    /\ pc = "debug_dst"
    /\ EnterExists(frame, "dst", "A", "same")
    /\ UNCHANGED <<call, sent, isWebdavCache, debug, davServer, remote>>
    /\ UNCHANGED <<handleVars, sessionVars, requestVars, walkVars, uriVars, davVars, probeVars, mkdirVars, raceVars, retryVars, authVars>>

\* "if self == src: return", then "if not overwrite and self.exists()".
TransferSame ==
    /\ pc = "same"
    /\ IF call.src = "self"
       THEN Finish /\ UNCHANGED frame
       ELSE IF ~call.overwrite
       THEN EnterExists(frame, "dst", "A", "transfer_checked")
       ELSE Goto("route") /\ UNCHANGED frame
    /\ UNCHANGED <<call, sent, isWebdavCache, debug, davServer, remote>>
    /\ UNCHANGED <<handleVars, sessionVars, requestVars, walkVars, uriVars, davVars, probeVars, mkdirVars, raceVars, retryVars, authVars>>

\* "... and self.exists(): raise FileExistsError"
TransferChecked ==
    /\ pc = "transfer_checked"
    /\ IF frame.rv THEN Raise("FileExistsError") ELSE Goto("route")
    /\ UNCHANGED <<call, sent, frame, isWebdavCache, debug, davServer, remote>>
    /\ UNCHANGED <<handleVars, sessionVars, requestVars, walkVars, uriVars, davVars, probeVars, mkdirVars, raceVars, retryVars, authVars>>

\* "isinstance(src, type(self)) and self.root_uri() == src.root_uri() and
\* self.is_webdav_endpoint": the endpoint is classified only for a source of
\* the same root.
TransferRoute ==
    /\ pc = "route"
    /\ IF call.src = "sameRoot"
       THEN /\ frame' = [frame EXCEPT !.root = "A"]
            /\ EnterIsWebdav("A", "routed")
       ELSE Goto("as_local_get") /\ UNCHANGED frame
    /\ UNCHANGED <<call, sent, isWebdavCache, debug, davServer, remote>>
    /\ UNCHANGED <<handleVars, sessionVars, requestVars, walkVars, uriVars, davVars, probeVars, mkdirVars, raceVars, retryVars, authVars>>

\* Same root and WebDAV: _move() for a move, _copy() else, which goes through
\* a local file (must_use_local).
TransferRouted ==
    /\ pc = "routed"
    /\ IF isWebdavCache["A"] = "dav" /\ call.transfer = "move"
       THEN Goto("move")
       ELSE Goto("as_local_get")
    /\ UNCHANGED <<call, sent, frame, isWebdavCache, debug, davServer, remote>>
    /\ UNCHANGED <<handleVars, sessionVars, requestVars, walkVars, uriVars, davVars, probeVars, mkdirVars, raceVars, retryVars, authVars>>

\* The end of "with src.as_local()" in _copy_via_local(): as_local() removes
\* the temporary file; then, for a move that was staged, src.remove().
TransferUploaded ==
    /\ pc = "uploaded"
    /\ tmpFile' = FALSE
    /\ inAsLocal' = FALSE
    /\ IF call.transfer = "move"
       THEN pc' = "delete" /\ UNCHANGED <<stack, outcome>>
       ELSE pc' = "done" /\ stack' = <<>> /\ outcome' = "returned"
    /\ UNCHANGED <<call, sent, frame, isWebdavCache, debug, davServer, remote>>
    /\ UNCHANGED <<handleVars, sessionVars, requestVars, walkVars, uriVars, davVars, probeVars, mkdirVars, raceVars, retryVars, authVars>>

\* ------------------------------------------------------- the specification
\* The directories exist from the root down to some level (a server may not
\* even serve its root as a collection); the destination file can only exist
\* in an existing directory; a file may sit where the directory of the
\* destination is expected.
DirStates ==
    {[l \in 0..Depth |-> IF l < k THEN "directory" ELSE "absent"] : k \in 0..(Depth + 1)}
    \cup {[l \in 0..Depth |-> IF l < Depth THEN "directory" ELSE "file"]}

InitTransfer ==
    /\ pc = "idle"
    /\ stack = <<>>
    /\ call = NoCall
    /\ outcome = "none"
    /\ sent = <<>>
    /\ frame = NoFrame
    /\ davServer \in [Roots -> BOOLEAN]
    /\ isWebdavCache \in [Roots -> {"unknown", "dav", "plain"}]
    /\ \A r \in Roots : isWebdavCache[r] \in {"unknown", IF davServer[r] THEN "dav" ELSE "plain"}
    /\ debug \in BOOLEAN
    /\ tmpFile = FALSE
    /\ inAsLocal = FALSE
    /\ remote \in [src : {"absent", "src_data"}, dst : {"absent", "old_data"}, dirs : DirStates]
    /\ remote.dst # "absent" => remote.dirs[Depth] = "directory"
    /\ InitHandle
    /\ NoSessions
    /\ NoRequest
    /\ NoWalk
    /\ NoUri /\ NoDav /\ NoProbe /\ NoMkdir /\ NoRace /\ NoRetry /\ NoAuth

NextTransfer ==
    \/ \E overwrite \in BOOLEAN : Write(overwrite)
    \/ WriteChecked
    \/ \E src \in Sources, transfer \in Modes, overwrite \in BOOLEAN :
            TransferFrom(src, transfer, overwrite)
    \/ TransferDebugDst
    \/ TransferSame
    \/ TransferChecked
    \/ TransferRoute
    \/ TransferRouted
    \/ TransferUploaded
    \/ Options
    \/ ExistsProbe
    \/ MkdirEntry
    \/ MkdirPropfind
    \/ MkdirMkcol
    \/ PutEmpty
    \/ PutData
    \/ AsLocalGet
    \/ AsLocalBody
    \/ Remove
    \/ Delete
    \/ Move
    \/ Finished

SpecTransfer == InitTransfer /\ [][NextTransfer]_vars

\* ------------------------------------- claims on write and transfer_from
ProbeMethods == {"OPTIONS", "HEAD", "PROPFIND"}
OnlyProbesSent == \A i \in 1..Len(sent) : sent[i].method \in ProbeMethods
NothingSent ==
    [method |-> "none", url |-> <<"none", "none">>, body |-> "none", code |-> 0,
     exists |-> FALSE]
LastSent == IF sent = <<>> THEN NothingSent ELSE sent[Len(sent)]
Done == pc = "done"

\* A call that must not overwrite: write(data, overwrite=False), or
\* transfer_from(src, mode, overwrite=False) with a supported mode and a
\* source other than the destination.
NoOverwriteCall ==
    /\ call.op \in {"write", "transfer_from"}
    /\ ~call.overwrite
    /\ call.op = "transfer_from" => (call.src # "self" /\ call.transfer \in transferModes)

\* C1: while a call with overwrite=False runs on a destination that exists
\* (it still holds the data it held before the call), nothing but existence
\* probes (OPTIONS, HEAD, PROPFIND) has been sent, and the call does not
\* return normally.
C1_ExistingDestinationNotOverwritten ==
    (NoOverwriteCall /\ remote.dst = "old_data")
        => (OnlyProbesSent /\ (Done => outcome # "returned"))

\* C2: in a staged move the DELETE of the source is sent only right after the
\* PUT of the data was answered with success, which itself follows the GET
\* answered 200; and when that DELETE fails the call raises while the data is
\* at the source and at the destination.
SuccessfulUpload(r) == r.method = "PUT" /\ r.body # "empty" /\ r.code \in {ok, created, no_content}
C2_SourceDeletedOnlyAfterUpload ==
    /\ \A i \in 1..Len(sent) :
        (call.op = "transfer_from" /\ sent[i].method = "DELETE")
        => /\ call.transfer = "move"
           /\ i > 1
           /\ SuccessfulUpload(sent[i - 1])
           /\ \E j \in 1..(i - 1) : sent[j].method = "GET" /\ sent[j].code = ok
    /\ (Done /\ call.op = "transfer_from" /\ LastSent.method = "DELETE"
             /\ LastSent.code \notin {ok, accepted, no_content, not_found})
        => /\ outcome \in {"ValueError", "ConnectionError"}
           /\ remote[Resource("src")] # "absent"
           /\ remote.dst = frame.data
    /\ (call.op = "transfer_from" /\ ~(\E i \in 1..Len(sent) : sent[i].method \in {"DELETE", "MOVE"}))
        => (call.src = "self" \/ remote[Resource("src")] = "absent" \/ remote[Resource("src")] = "src_data")

C2_Witness ==
    /\ Done
    /\ outcome = "ValueError"
    /\ LastSent.method = "DELETE"
    /\ LastSent.code = forbidden
    /\ remote.src = "src_data"
    /\ remote.dst = "src_data"

\* C3: when write or transfer_from has returned or raised, no temporary file
\* of _as_local is left on the local disk.
C3_TemporaryFileRemovedOnExit == Done => ~tmpFile

\* The PUT requests of the call, in the order sent.
IsPut(r) == r.method = "PUT"
PutsSent == SelectSeq(sent, IsPut)
\* The place in `sent` of the first PUT (0: none).
FirstPut == IF PutsSent = <<>> THEN 0
            ELSE CHOOSE i \in 1..Len(sent) :
                    IsPut(sent[i]) /\ \A j \in 1..(i - 1) : ~IsPut(sent[j])

C13_UnsupportedModeFailsFirst ==
    (call.op = "transfer_from" /\ call.transfer \notin transferModes)
        => /\ Done
           /\ outcome = "ValueError"
           /\ sent = <<>>
           /\ ~tmpFile

C13_Witness ==
    /\ Done
    /\ outcome = "ValueError"
    /\ call.op = "transfer_from"
    /\ call.transfer = "symlink"
    /\ call.src = "otherRoot"
    /\ ~call.overwrite
    /\ debug
    /\ remote.dst = "old_data"
    /\ sent = <<>>

\* C14: transfer_from whose source is the destination itself, with a supported
\* mode and any overwrite flag, sends nothing but existence probes and, once
\* it is over, has returned normally.
C14_SameSourceIsNoOp ==
    (call.op = "transfer_from" /\ call.src = "self" /\ call.transfer \in transferModes)
        => (OnlyProbesSent /\ (Done => outcome = "returned"))

\* The exceptions with which the copy of a staged transfer fails: the
\* download (status other than 200, length other than Content-Length), the
\* upload (status other than 200, 201, 204), the transport.
CopyErrors == {"FileNotFoundError", "ValueError", "ConnectionError"}
\* A staged move has failed in src.remove(), after its copy succeeded.
DeleteFailed ==
    /\ Done
    /\ call.op = "transfer_from"
    /\ call.transfer = "move"
    /\ LastSent.method = "DELETE"
    /\ outcome # "returned"

\* C15: the error of a move whose copy succeeded and whose deletion of the
\* source failed is none of the errors with which the copy itself fails.
C15_DeleteFailureDistinct == DeleteFailed => outcome \notin CopyErrors

\* A transfer between two distinct paths of the same WebDAV authority.
SameDavAuthority ==
    /\ call.op = "transfer_from"
    /\ call.src = "sameRoot"
    /\ call.transfer \in transferModes
    /\ isWebdavCache["A"] = "dav"
MethodsSent == {sent[i].method : i \in 1..Len(sent)}

\* C16: a transfer between two paths of the same WebDAV authority that has
\* returned was done by the server: a MOVE for mode move, a COPY for the
\* modes copy and auto, and no GET or PUT of the data.
C16_ServerSideTransfer ==
    (SameDavAuthority /\ Done /\ outcome = "returned")
        => /\ (IF call.transfer = "move" THEN "MOVE" ELSE "COPY") \in MethodsSent
           /\ MethodsSent \cap {"GET", "PUT"} = {}

\* Requests on the directory of a level.
OnDir(r, method, level) == r.method = method /\ r.url[1] = "dir" /\ r.url[2] = level
ShownExisting(r) == r.code = multi_status /\ r.exists
ShownMissing(r) == r.code \in {multi_status, not_found} /\ ~ShownExisting(r)
Mkcols == {i \in 1..Len(sent) : sent[i].method = "MKCOL"}

\* C17: every MKCOL of mkdir is for a directory between the root and the one
\* asked for, which an earlier PROPFIND showed missing and no PROPFIND showed
\* existing; below the root it comes after the PROPFIND that showed its parent
\* or the MKCOL that created it, and the MKCOLs go from the top down.
C17_MkcolOnlyForMissingTopDown ==
    \A i \in Mkcols :
        LET level == sent[i].url[2] IN
        /\ sent[i].url[1] = "dir"
        /\ level \in 0..Depth
        /\ \E j \in 1..(i - 1) : OnDir(sent[j], "PROPFIND", level) /\ ShownMissing(sent[j])
        /\ ~\E j \in 1..Len(sent) : OnDir(sent[j], "PROPFIND", level) /\ ShownExisting(sent[j])
        /\ level > 0 =>
            \E j \in 1..(i - 1) :
                \/ OnDir(sent[j], "PROPFIND", level - 1) /\ ShownExisting(sent[j])
                \/ OnDir(sent[j], "MKCOL", level - 1) /\ sent[j].code = created
        /\ \A k \in Mkcols : k < i => sent[k].url[2] < level

C17_Witness ==
    /\ Done
    /\ outcome = "returned"
    /\ call.op = "write"
    /\ \E i, j \in Mkcols :
        /\ i < j
        /\ OnDir(sent[i], "MKCOL", Depth - 1) /\ sent[i].code = created
        /\ OnDir(sent[j], "MKCOL", Depth) /\ sent[j].code = created
    /\ \E j \in 1..Len(sent) : OnDir(sent[j], "PROPFIND", Depth - 2) /\ ShownExisting(sent[j])

\* exists() has just returned frame.rv to transfer_from or write.
ExistsReturned == pc \in {"write_checked", "transfer_checked", "debug_dst"}

\* C18: exists() returns only on an answer of success or 404: true on 200 to
\* HEAD and on 207 with the properties to PROPFIND, false on 404; any other
\* status makes it fail and is never returned as absence.
C18_ExistsFailsOnOtherStatus ==
    ExistsReturned
        => /\ LastSent.code \in {ok, multi_status, not_found}
           /\ LastSent.code = not_found => ~frame.rv
           /\ (LastSent.code = ok \/ ShownExisting(LastSent)) => frame.rv

\* C20: write on a plain HTTP endpoint does not fail with NotImplementedError.
C20_WriteOnPlainHttp ==
    (call.op = "write" /\ isWebdavCache["A"] = "plain")
        => outcome # "NotImplementedError"

\* C27: remove() fails with FileNotFoundError when the DELETE is answered
\* 404, and returns when it is answered 200 or another success status.
C27_RemoveMissingFails ==
    (Done /\ call.op = "remove" /\ LastSent.method = "DELETE" /\ LastSent.code # 0)
        => IF LastSent.code = not_found THEN outcome = "FileNotFoundError"
           ELSE IF LastSent.code \in {ok, accepted, no_content} THEN outcome = "returned"
           ELSE outcome \notin {"returned", "FileNotFoundError"}

\* C28: the payload of a PUT is never sent to an intermediate URL of a chain
\* of redirections, that is, to a URL that answers with a redirection.
C28_PayloadOnlyToLastUrl ==
    \A i \in 1..Len(sent) :
        (IsPut(sent[i]) /\ sent[i].body # "empty") => sent[i].code # temporary_redirect

\* ---------------------------------------------------------- SessionStore
\* The authority (scheme, host, port) of an instance: root_uri().
Authority(i) == IF i <= 2 THEN "A" ELSE "B"

\* _make_session(): a new session, created by the running process.
MakeSession(kind, key) == [pid |-> pid, kind |-> kind, key |-> key, closed |-> FALSE]

\* clear(): closes every session of the store ...
ClearClosed(store, pool) ==
    [s \in 1..Len(pool) |->
        IF \E a \in Authorities : store[a] = s THEN [pool[s] EXCEPT !.closed = TRUE]
        ELSE pool[s]]
\* ... and empties the store.
ClearStore(store) == [a \in Authorities |-> NoSession]

\* get(rpath), called without interruption: the session cached for the root
\* of the path, created first when the key is absent.
GetPool(store, pool, kind, key) ==
    IF store[key] = NoSession THEN Append(pool, MakeSession(kind, key)) ELSE pool
GetStore(store, pool, key) ==
    IF store[key] = NoSession THEN [store EXCEPT ![key] = Len(pool) + 1] ELSE store

\* The property metadata_session or data_session of instance i.
SessionProperty(i, kind) ==
    IF instSession[i][kind] # NoSession /\ instPid[i] = pid
    THEN /\ lastSession' = [inst |-> i, kind |-> kind, pid |-> pid,
                            session |-> instSession[i][kind]]
         /\ UNCHANGED <<pid, instPid, instSession, sessions, made>>
    ELSE LET key     == Authority(i)
             cleared == ClearStore(sessions[kind])
             pool    == ClearClosed(sessions[kind], made)
             store   == GetStore(cleared, pool, key)
         IN  /\ Len(made) < MaxSessions
             /\ made' = GetPool(cleared, pool, kind, key)
             /\ sessions' = [sessions EXCEPT ![kind] = store]
             /\ instPid' = [instPid EXCEPT ![i] = pid]
             /\ instSession' = [instSession EXCEPT ![i][kind] = store[key]]
             /\ lastSession' = [inst |-> i, kind |-> kind, pid |-> pid,
                                session |-> store[key]]
             /\ UNCHANGED pid

MetadataSession(i) ==
    /\ SessionProperty(i, "metadata")
    /\ UNCHANGED <<threadPc, threadKey, threadMade, threadResult>>
    /\ UNCHANGED <<handleVars, transferVars, requestVars, walkVars, uriVars, davVars, probeVars, mkdirVars, raceVars, retryVars, authVars>>

DataSession(i) ==
    /\ SessionProperty(i, "data")
    /\ UNCHANGED <<threadPc, threadKey, threadMade, threadResult>>
    /\ UNCHANGED <<handleVars, transferVars, requestVars, walkVars, uriVars, davVars, probeVars, mkdirVars, raceVars, retryVars, authVars>>

\* os.fork(), seen from the child: the same objects under another process ID.
Fork ==
    /\ pid < MaxPid
    /\ pid' = pid + 1
    /\ UNCHANGED <<instPid, instSession, sessions, made, lastSession>>
    /\ UNCHANGED <<threadPc, threadKey, threadMade, threadResult>>
    /\ UNCHANGED <<handleVars, transferVars, requestVars, walkVars, uriVars, davVars, probeVars, mkdirVars, raceVars, retryVars, authVars>>

NextSessions ==
    \/ \E i \in Instances : MetadataSession(i)
    \/ \E i \in Instances : DataSession(i)
    \/ Fork

InitSessions == InitHandle /\ NoTransfer /\ NoSessions /\ NoRequest /\ NoWalk /\ NoUri /\ NoDav /\ NoProbe /\ NoMkdir /\ NoRace /\ NoRetry /\ NoAuth

SpecSessions == InitSessions /\ [][NextSessions]_vars

\* ------------------------------------- SessionStore.get called by threads
\* The store the threads share is the one of the metadata sessions.
ThreadStore == "metadata"
ThreadFrame == <<pid, instPid, instSession, lastSession>>

\* "if root_uri not in self._sessions:"
GetCheck(t, key) ==
    /\ threadPc[t] = "idle"
    /\ threadKey' = [threadKey EXCEPT ![t] = key]
    /\ threadPc' = [threadPc EXCEPT
                       ![t] = IF sessions[ThreadStore][key] = NoSession THEN "make" ELSE "return"]
    /\ UNCHANGED <<sessions, made, threadMade, threadResult, ThreadFrame>>
    /\ UNCHANGED <<handleVars, transferVars, requestVars, walkVars, uriVars, davVars, probeVars, mkdirVars, raceVars, retryVars, authVars>>

\* "self._make_session(rpath)"
GetMake(t) ==
    /\ threadPc[t] = "make"
    /\ Len(made) < MaxSessions
    /\ made' = Append(made, MakeSession(ThreadStore, threadKey[t]))
    /\ threadMade' = [threadMade EXCEPT ![t] = Len(made) + 1]
    /\ threadPc' = [threadPc EXCEPT ![t] = "assign"]
    /\ UNCHANGED <<sessions, threadKey, threadResult, ThreadFrame>>
    /\ UNCHANGED <<handleVars, transferVars, requestVars, walkVars, uriVars, davVars, probeVars, mkdirVars, raceVars, retryVars, authVars>>

\* "self._sessions[root_uri] = ..."
GetAssign(t) ==
    /\ threadPc[t] = "assign"
    /\ sessions' = [sessions EXCEPT ![ThreadStore][threadKey[t]] = threadMade[t]]
    /\ threadPc' = [threadPc EXCEPT ![t] = "return"]
    /\ UNCHANGED <<made, threadKey, threadMade, threadResult, ThreadFrame>>
    /\ UNCHANGED <<handleVars, transferVars, requestVars, walkVars, uriVars, davVars, probeVars, mkdirVars, raceVars, retryVars, authVars>>

\* "return self._sessions[root_uri]"
GetReturn(t) ==
    /\ threadPc[t] = "return"
    /\ threadResult' = [threadResult EXCEPT
                           ![t] = [key |-> threadKey[t],
                                   session |-> sessions[ThreadStore][threadKey[t]]]]
    /\ threadMade' = [threadMade EXCEPT ![t] = NoSession]
    /\ threadPc' = [threadPc EXCEPT ![t] = "idle"]
    /\ UNCHANGED <<sessions, made, threadKey, ThreadFrame>>
    /\ UNCHANGED <<handleVars, transferVars, requestVars, walkVars, uriVars, davVars, probeVars, mkdirVars, raceVars, retryVars, authVars>>

NextThreads ==
    \/ \E t \in Threads, key \in Authorities : GetCheck(t, key)
    \/ \E t \in Threads : GetMake(t)
    \/ \E t \in Threads : GetAssign(t)
    \/ \E t \in Threads : GetReturn(t)

InitThreads == InitHandle /\ NoTransfer /\ NoSessions /\ NoRequest /\ NoWalk /\ NoUri /\ NoDav /\ NoProbe /\ NoMkdir /\ NoRace /\ NoRetry /\ NoAuth

SpecThreads == InitThreads /\ [][NextThreads]_vars

\* -------------------------------------------------- claims on the sessions
\* C8: a session returned by metadata_session or data_session was created
\* under the process ID under which the property was accessed, never under a
\* previous one.
C8_NoSessionOfPreviousProcess ==
    lastSession.session # NoSession
        => made[lastSession.session].pid = lastSession.pid

\* A session handed to instance i by the property of a kind, made under the
\* process ID that is still current.
Holds(i, kind) ==
    /\ instSession[i][kind] # NoSession
    /\ made[instSession[i][kind]].pid = pid

\* C9: while the process ID does not change, the session handed to an
\* instance stays cached in its store and open, and instances of the same
\* authority hold the same session of a kind.
C9_SessionSharedByAuthority ==
    \A i \in Instances, kind \in Kinds :
        Holds(i, kind)
        => /\ ~made[instSession[i][kind]].closed
           /\ sessions[kind][Authority(i)] = instSession[i][kind]
           /\ \A j \in Instances :
                (Holds(j, kind) /\ Authority(j) = Authority(i))
                => instSession[j][kind] = instSession[i][kind]

\* C10: with threads calling get() concurrently, at most one session is
\* created for a key and all callers of a key receive the same session.
SessionsMadeFor(key) == {s \in 1..Len(made) : made[s].key = key}
C10_OneSessionPerKey ==
    /\ \A key \in Authorities : Cardinality(SessionsMadeFor(key)) <= 1
    /\ \A t, u \in Threads :
        (/\ threadResult[t].session # NoSession
         /\ threadResult[u].session # NoSession
         /\ threadResult[t].key = threadResult[u].key)
        => threadResult[t].session = threadResult[u].session

\* --------------------------------- HttpResourcePath._send_webdav_request
max_redirects == 5
Methods == {"PROPFIND", "OPTIONS", "HEAD", "MKCOL", "DELETE", "COPY", "MOVE"}
Locations == {"location1", "location2"}

\* Answers to one request: a redirect with a Location, a redirect status
\* without one, other statuses, or an exception of the transport.
Redirect(location) == [raised |-> FALSE, code |-> temporary_redirect, location |-> location]
Plain(code) == [raised |-> FALSE, code |-> code, location |-> "none"]
RequestAnswers ==
    {Redirect(l) : l \in Locations}
    \cup {Plain(c) : c \in {ok, multi_status, not_found, forbidden, temporary_redirect}}
    \cup {[raised |-> TRUE, code |-> 0, location |-> "none"]}
\* requests.Response.is_redirect: a redirect status and a Location header.
is_redirect(resp) == resp.code = temporary_redirect /\ resp.location # "none"

\* The headers and bodies the callers pass: none, or "Depth" with the XML
\* body of a PROPFIND.
Headers == {"none", "depth"}
Bodies == {"none", "xml"}

\* _send_webdav_request(method, headers=headers, body=body): url =
\* self.geturl(), then the loop.
SendWebdavRequest(method, headers, body) ==
    /\ reqPc = "idle"
    /\ reqPc' = "loop"
    /\ reqMethod' = method
    /\ reqHeaders' = headers
    /\ reqBody' = body
    /\ reqUrl' = "resource"
    /\ UNCHANGED <<reqIter, reqSent, reqOutcome>>
    /\ UNCHANGED <<handleVars, transferVars, sessionVars, walkVars, uriVars, davVars, probeVars, mkdirVars, raceVars, retryVars, authVars>>

\* (mutant) the loop allows one more request.
RequestLoopOneMore ==
    /\ reqPc = "loop"
    /\ reqIter < max_redirects + 1
    /\ \E resp \in RequestAnswers :
        /\ reqSent' = Append(reqSent, [method |-> reqMethod, url |-> reqUrl,
                                       headers |-> reqHeaders, body |-> reqBody,
                                       code |-> resp.code, location |-> resp.location,
                                       redirect |-> ~resp.raised /\ is_redirect(resp)])
        /\ reqIter' = reqIter + 1
        /\ IF resp.raised
           THEN reqPc' = "done" /\ reqOutcome' = "ConnectionError" /\ UNCHANGED reqUrl
           ELSE IF ~is_redirect(resp)
           THEN reqPc' = "done" /\ reqOutcome' = "returned" /\ UNCHANGED reqUrl
           ELSE /\ reqUrl' = resp.location
                /\ IF reqIter + 1 < max_redirects + 1
                   THEN reqPc' = "loop" /\ UNCHANGED reqOutcome
                   ELSE reqPc' = "done" /\ reqOutcome' = "ValueError"
    /\ UNCHANGED <<reqMethod, reqHeaders, reqBody>>
    /\ UNCHANGED <<handleVars, transferVars, sessionVars, walkVars, uriVars, davVars, probeVars, mkdirVars, raceVars, retryVars, authVars>>

\* (mutant) the request that follows a redirect is rebuilt as a GET, the way
\* the redirect handling of the requests package does.
RequestLoopRebuildsMethod ==
    /\ reqPc = "loop"
    /\ reqIter < max_redirects
    /\ \E resp \in RequestAnswers :
        /\ reqSent' = Append(reqSent, [method |-> IF reqIter > 0 /\ reqMethod # "HEAD"
                                                   THEN "GET" ELSE reqMethod,
                                        url |-> reqUrl,
                                       headers |-> reqHeaders, body |-> reqBody,
                                       code |-> resp.code, location |-> resp.location,
                                       redirect |-> ~resp.raised /\ is_redirect(resp)])
        /\ reqIter' = reqIter + 1
        /\ IF resp.raised
           THEN reqPc' = "done" /\ reqOutcome' = "ConnectionError" /\ UNCHANGED reqUrl
           ELSE IF ~is_redirect(resp)
           THEN reqPc' = "done" /\ reqOutcome' = "returned" /\ UNCHANGED reqUrl
           ELSE /\ reqUrl' = resp.location
                /\ IF reqIter + 1 < max_redirects
                   THEN reqPc' = "loop" /\ UNCHANGED reqOutcome
                   ELSE reqPc' = "done" /\ reqOutcome' = "ValueError"
    /\ UNCHANGED <<reqMethod, reqHeaders, reqBody>>
    /\ UNCHANGED <<handleVars, transferVars, sessionVars, walkVars, uriVars, davVars, probeVars, mkdirVars, raceVars, retryVars, authVars>>

\* One iteration of "for _ in range(max_redirects := 5)": a request to url; a
\* redirect replaces url, any other answer is returned; after the last
\* iteration the ValueError is raised.
RequestLoop ==
    /\ reqPc = "loop"
    /\ reqIter < max_redirects
    /\ \E resp \in RequestAnswers :
        /\ reqSent' = Append(reqSent, [method |-> reqMethod, url |-> reqUrl,
                                       headers |-> reqHeaders, body |-> reqBody,
                                       code |-> resp.code, location |-> resp.location,
                                       redirect |-> ~resp.raised /\ is_redirect(resp)])
        /\ reqIter' = reqIter + 1
        /\ IF resp.raised
           THEN reqPc' = "done" /\ reqOutcome' = "ConnectionError" /\ UNCHANGED reqUrl
           ELSE IF ~is_redirect(resp)
           THEN reqPc' = "done" /\ reqOutcome' = "returned" /\ UNCHANGED reqUrl
           ELSE /\ reqUrl' = resp.location
                /\ IF reqIter + 1 < max_redirects
                   THEN reqPc' = "loop" /\ UNCHANGED reqOutcome
                   ELSE reqPc' = "done" /\ reqOutcome' = "ValueError"
    /\ UNCHANGED <<reqMethod, reqHeaders, reqBody>>
    /\ UNCHANGED <<handleVars, transferVars, sessionVars, walkVars, uriVars, davVars, probeVars, mkdirVars, raceVars, retryVars, authVars>>

NextRequest ==
    \/ \E method \in Methods, headers \in Headers, body \in Bodies :
            SendWebdavRequest(method, headers, body)
    \/ RequestLoop

InitRequest == InitHandle /\ NoTransfer /\ NoSessions /\ NoRequest /\ NoWalk /\ NoUri /\ NoDav /\ NoProbe /\ NoMkdir /\ NoRace /\ NoRetry /\ NoAuth

\* Each request ends: the session has timeouts, so it is answered or raises.
SpecRequest == InitRequest /\ [][NextRequest]_vars /\ WF_vars(RequestLoop)

\* ------------------------------------- claims on _send_webdav_request
AllRedirects == \A i \in 1..Len(reqSent) : reqSent[i].redirect

Redirections == Cardinality({i \in 1..Len(reqSent) : reqSent[i].redirect})
C29_FiveHopsFollowed ==
    (reqPc = "done" /\ reqOutcome = "ValueError") => Redirections > max_redirects

\* C30: every request of a call carries the method, the headers and the body
\* the call was made with, never GET in place of the method; the first goes
\* to the URL of the resource and each later one to the Location of the
\* redirect that answered the one before.
C30_RedirectKeepsRequest ==
    \A i \in 1..Len(reqSent) :
        /\ reqSent[i].method = reqMethod
        /\ reqSent[i].method # "GET"
        /\ reqSent[i].headers = reqSent[1].headers
        /\ reqSent[i].body = reqSent[1].body
        /\ reqSent[1].headers = reqHeaders
        /\ reqSent[1].body = reqBody
        /\ IF i = 1 THEN reqSent[i].url = "resource"
           ELSE reqSent[i - 1].redirect /\ reqSent[i].url = reqSent[i - 1].location

C30_Witness ==
    /\ reqPc = "done"
    /\ reqOutcome = "returned"
    /\ reqMethod = "PROPFIND"
    /\ reqHeaders = "depth"
    /\ reqBody = "xml"
    /\ Len(reqSent) = 3
    /\ reqSent[1].location = "location1"
    /\ reqSent[2].location = "location2"
    /\ reqSent[3].url = "location2"
    /\ reqSent[3].code = multi_status

\* ------------------------------------------------ HttpResourcePath.walk
\* A path is the sequence of its components: <<>> is the root "/", <<"a", "b">>
\* is "/a/b/". Collections are named "a" or "b"; a collection may hold one
\* file, named "f".
Names == {"a", "b"}
NameOrder == <<"a", "b">>
FileName == "f"
DirPaths == {<<>>} \cup {<<n>> : n \in Names} \cup {<<n, m>> : n \in Names, m \in Names}
IsPrefix(p, q) == Len(p) <= Len(q) /\ SubSeq(q, 1, Len(p)) = p
\* str.endswith on "/"-separated paths stripped of their trailing "/": the
\* stripped root is the empty string, which every string ends with.
EndsWith(q, p) == Len(p) <= Len(q) /\ SubSeq(q, Len(q) - Len(p) + 1, Len(q)) = p
Parent(p) == SubSeq(p, 1, Len(p) - 1)

\* The servers: the root, at most MaxDirs collections below it, each in a
\* collection that exists, and the collections that hold a file.
Trees ==
    {t \in [dirs : SUBSET DirPaths, files : SUBSET DirPaths] :
        /\ <<>> \in t.dirs
        /\ Cardinality(t.dirs) <= MaxDirs + 1
        /\ \A d \in t.dirs : d = <<>> \/ Parent(d) \in t.dirs
        /\ t.files \subseteq t.dirs}

\* The answer to PROPFIND with "Depth: 1" on a collection: the collection
\* itself, its collections and its file, each with href, resourcetype, name.
Children(p) == {n \in Names : Append(p, n) \in tree.dirs}
Listing(p) ==
    {[href |-> p, collection |-> TRUE, name |-> IF p = <<>> THEN "" ELSE p[Len(p)]]}
    \cup {[href |-> Append(p, n), collection |-> TRUE, name |-> n] : n \in Children(p)}
    \cup (IF p \in tree.files
          THEN {[href |-> Append(p, FileName), collection |-> FALSE, name |-> FileName]}
          ELSE {})

\* walk(): "if prop.is_file: files.append(prop.name)"
WalkFiles(p) ==
    LET Listed(n) == \E e \in Listing(p) : ~e.collection /\ e.name = n
    IN  SelectSeq(<<FileName>>, Listed)
\* walk(): "elif not prop.href.rstrip('/').endswith(self.path.rstrip('/')):
\* dirs.append(prop.name)"
WalkDirs(p) ==
    LET Listed(n) == \E e \in Listing(p) :
                        e.collection /\ e.name = n /\ ~EndsWith(e.href, p)
    IN  SelectSeq(NameOrder, Listed)

\* walk() is called on a path: the checks before the first PROPFIND.
Walk(start, kind) ==
    /\ walkPc = "idle"
    /\ walkStart' = start
    /\ IF kind = "file_path"
       THEN walkPc' = "done" /\ walkOutcome' = "ValueError" /\ UNCHANGED walkStack
       ELSE IF kind = "plain"
       THEN walkPc' = "done" /\ walkOutcome' = "NotImplementedError" /\ UNCHANGED walkStack
       ELSE walkPc' = "walking" /\ walkStack' = <<start>> /\ UNCHANGED walkOutcome
    /\ UNCHANGED <<tree, walkYielded>>
    /\ UNCHANGED <<handleVars, transferVars, sessionVars, requestVars, uriVars, davVars, probeVars, mkdirVars, raceVars, retryVars, authVars>>

\* The generator runs up to its next PROPFIND and through its answer: the
\* triple of the directory is yielded unless it has neither collections nor
\* files, then its collections are walked, in order, before anything else.
WalkPropfind ==
    /\ walkPc = "walking"
    /\ \E answer \in {"multi_status", "forbidden", "transport"} :
        LET p      == Head(walkStack)
            dirs   == WalkDirs(p)
            files  == WalkFiles(p)
            empty  == dirs = <<>> /\ files = <<>>
            rest   == IF empty THEN Tail(walkStack)
                      ELSE [i \in 1..Len(dirs) |-> Append(p, dirs[i])] \o Tail(walkStack)
        IN  IF answer # "multi_status"
            THEN /\ walkPc' = "done"
                 /\ walkOutcome' = IF answer = "forbidden" THEN "ValueError"
                                   ELSE "ConnectionError"
                 /\ UNCHANGED <<walkStack, walkYielded>>
            ELSE /\ walkYielded' = IF empty THEN walkYielded
                                   ELSE Append(walkYielded,
                                               [dir |-> p, dirs |-> dirs, files |-> files])
                 /\ walkStack' = rest
                 /\ IF rest = <<>>
                    THEN walkPc' = "done" /\ walkOutcome' = "returned"
                    ELSE UNCHANGED <<walkPc, walkOutcome>>
    /\ UNCHANGED <<tree, walkStart>>
    /\ UNCHANGED <<handleVars, transferVars, sessionVars, requestVars, uriVars, davVars, probeVars, mkdirVars, raceVars, retryVars, authVars>>

InitWalk ==
    /\ InitHandle
    /\ NoTransfer
    /\ NoSessions
    /\ NoRequest
    /\ NoUri /\ NoDav /\ NoProbe /\ NoMkdir /\ NoRace /\ NoRetry /\ NoAuth
    /\ tree \in Trees
    /\ walkStart = <<>>
    /\ walkStack = <<>>
    /\ walkYielded = <<>>
    /\ walkPc = "idle"
    /\ walkOutcome = "none"

NextWalk ==
    \/ \E start \in tree.dirs, kind \in {"file_path", "plain", "dav"} : Walk(start, kind)
    \/ WalkPropfind

SpecWalk == InitWalk /\ [][NextWalk]_vars

\* -------------------------------------------------------- claims on walk
Range(seq) == {seq[i] : i \in 1..Len(seq)}
NonEmptyDir(d) == Children(d) # {} \/ d \in tree.files
Walked == {d \in tree.dirs : IsPrefix(walkStart, d) /\ NonEmptyDir(d)}

\* C19: a walk that has ended normally has yielded one triple for each
\* non-empty directory at or below the walked one, a directory before its
\* descendants, each triple with all the collections of its directory as
\* subdirectory names and its files as file names.
C19_WalkYieldsTheTree ==
    (walkPc = "done" /\ walkOutcome = "returned")
        => /\ {walkYielded[i].dir : i \in 1..Len(walkYielded)} = Walked
           /\ Len(walkYielded) = Cardinality(Walked)
           /\ \A i \in 1..Len(walkYielded) :
                /\ Range(walkYielded[i].dirs) = Children(walkYielded[i].dir)
                /\ Range(walkYielded[i].files) =
                        (IF walkYielded[i].dir \in tree.files THEN {FileName} ELSE {})
                /\ \A j \in 1..(i - 1) :
                        ~IsPrefix(walkYielded[i].dir, walkYielded[j].dir)

\* ---------------------------------------------------- strings and paths
\* A string is the sequence of its characters. The characters of the model
\* are "/", ".", "%", "#", the digits 2, 3, 5 and the letters a, b, t, x, and
\* what unquote() makes of them.
Dot == <<".">>
DotDot == <<".", ".">>

\* str.startswith("/"), str.endswith("/")
StartsWithSep(s) == s # <<>> /\ s[1] = "/"
EndsOnSep(s) == s # <<>> /\ s[Len(s)] = "/"

\* str.rstrip("/")
RECURSIVE rstrip(_)
rstrip(s) == IF EndsOnSep(s) THEN rstrip(SubSeq(s, 1, Len(s) - 1)) ELSE s

\* str.rfind("/") + 1
rfind(s) ==
    LET seps == {i \in 1..Len(s) : s[i] = "/"}
    IN  IF seps = {} THEN 0 ELSE CHOOSE i \in seps : \A j \in seps : j <= i

\* str.split("/") and "/".join(comps)
RECURSIVE str_split(_)
str_split(s) ==
    LET seps == {i \in 1..Len(s) : s[i] = "/"}
        first == CHOOSE i \in seps : \A j \in seps : i <= j
    IN  IF seps = {} THEN <<s>>
        ELSE <<SubSeq(s, 1, first - 1)>> \o str_split(SubSeq(s, first + 1, Len(s)))

RECURSIVE sep_join(_)
sep_join(comps) ==
    IF comps = <<>> THEN <<>>
    ELSE IF Len(comps) = 1 THEN comps[1]
    ELSE comps[1] \o <<"/">> \o sep_join(Tail(comps))

\* posixpath.split: head and tail around the last "/"; the head loses its
\* trailing "/" unless it is made of "/" only.
posixpath_split(p) ==
    LET i    == rfind(p)
        head == SubSeq(p, 1, i)
        tail == SubSeq(p, i + 1, Len(p))
    IN  <<IF head # <<>> /\ (\E k \in 1..Len(head) : head[k] # "/") THEN rstrip(head)
          ELSE head,
          tail>>

\* posixpath.join of two paths
posixpath_join(a, b) ==
    IF StartsWithSep(b) THEN b
    ELSE IF a = <<>> \/ EndsOnSep(a) THEN a \o b
    ELSE a \o <<"/">> \o b

\* posixpath.isabs
isabs(p) == StartsWithSep(p)

\* The number of leading "/" kept: POSIX keeps exactly two, else one.
initial_slashes(p) ==
    IF ~StartsWithSep(p) THEN 0
    ELSE IF Len(p) >= 2 /\ p[2] = "/" /\ ~(Len(p) >= 3 /\ p[3] = "/") THEN 2
    ELSE 1

\* posixpath.normpath: the loop over the components
RECURSIVE new_comps(_, _, _)
new_comps(comps, acc, slashes) ==
    IF comps = <<>> THEN acc
    ELSE LET comp == Head(comps)
         IN  IF comp = <<>> \/ comp = Dot
             THEN new_comps(Tail(comps), acc, slashes)
             ELSE IF \/ comp # DotDot
                     \/ (slashes = 0 /\ acc = <<>>)
                     \/ (acc # <<>> /\ acc[Len(acc)] = DotDot)
             THEN new_comps(Tail(comps), Append(acc, comp), slashes)
             ELSE IF acc # <<>>
             THEN new_comps(Tail(comps), SubSeq(acc, 1, Len(acc) - 1), slashes)
             ELSE new_comps(Tail(comps), acc, slashes)

normpath(path) ==
    IF path = <<>> THEN Dot
    ELSE LET n      == initial_slashes(path)
             joined == [i \in 1..n |-> "/"] \o sep_join(new_comps(str_split(path), <<>>, n))
         IN  IF joined = <<>> THEN Dot ELSE joined

\* PurePosixPath(s): the root and the parts, "" and "." parts dropped, ".."
\* kept.
PurePosixPath(s) ==
    [root  |-> [i \in 1..initial_slashes(s) |-> "/"],
     parts |-> SelectSeq(str_split(s), LAMBDA comp : comp # <<>> /\ comp # Dot)]

\* str(PurePosixPath)
path_str(pp) ==
    LET joined == pp.root \o sep_join(pp.parts)
    IN  IF joined = <<>> THEN Dot ELSE joined

\* PurePosixPath.parent
path_parent(pp) ==
    IF pp.parts = <<>> THEN pp
    ELSE [pp EXCEPT !.parts = SubSeq(pp.parts, 1, Len(pp.parts) - 1)]

\* PurePosixPath.relative_to(other): ValueError unless the parts of other,
\* root included, begin the parts of the path.
abs_parts(pp) == IF pp.root # <<>> THEN <<pp.root>> \o pp.parts ELSE pp.parts
path_relative_to(pp, other) ==
    LET a == abs_parts(pp)
        t == abs_parts(other)
        n == Len(t)
    IN  IF (IF n = 0 THEN pp.root # <<>> ELSE (Len(a) < n \/ SubSeq(a, 1, n) # t))
        THEN [raised |-> TRUE, path |-> pp]
        ELSE [raised |-> FALSE, path |-> [root |-> <<>>, parts |-> SubSeq(a, n + 1, Len(a))]]

\* urllib.parse.quote, safe="/": "%" and "#" are the characters of the model
\* it escapes.
QuoteChar(c) ==
    IF c = "%" THEN <<"%", "2", "5">>
    ELSE IF c = "#" THEN <<"%", "2", "3">>
    ELSE <<c>>
RECURSIVE quote(_)
quote(s) == IF s = <<>> THEN <<>> ELSE QuoteChar(Head(s)) \o quote(Tail(s))

\* urllib.parse.unquote: "%" and two hexadecimal digits become the character
\* of that code (a lone byte above 0x7F becomes U+FFFD, written "?" here);
\* anything else stays.
HexDigits == {"2", "3", "5", "a", "b"}
Unhex(h, l) ==
    IF h = "2" THEN (CASE l = "2" -> "\"" [] l = "3" -> "#" [] l = "5" -> "%"
                       [] l = "a" -> "*" [] l = "b" -> "+")
    ELSE IF h = "3" THEN (CASE l = "2" -> "2" [] l = "3" -> "3" [] l = "5" -> "5"
                            [] l = "a" -> ":" [] l = "b" -> ";")
    ELSE IF h = "5" THEN (CASE l = "2" -> "R" [] l = "3" -> "S" [] l = "5" -> "U"
                            [] l = "a" -> "Z" [] l = "b" -> "[")
    ELSE "?"
RECURSIVE unquote(_)
unquote(s) ==
    IF s = <<>> THEN <<>>
    ELSE IF s[1] = "%" /\ Len(s) >= 3 /\ s[2] \in HexDigits /\ s[3] \in HexDigits
    THEN <<Unhex(s[2], s[3])>> \o unquote(SubSeq(s, 4, Len(s)))
    ELSE <<s[1]>> \o unquote(Tail(s))

\* --------------------------------------------------------------- ButlerURI
\* A URI object: its subclass, the components of _uri that the operations
\* touch, and dirLike.
Uri(cls, scheme, netloc, path, dirLike) ==
    [cls |-> cls, scheme |-> scheme, netloc |-> netloc, path |-> path, dirLike |-> dirLike]
NoUriObject == Uri("none", "", "", <<>>, FALSE)
ParseResult(scheme, netloc, path) == [scheme |-> scheme, netloc |-> netloc, path |-> path]

\* The schemes of the model: the six that have a subclass (with "https" for
\* the schemes that start with "http") and one that has none.
Schemes == {"", "file", "s3", "http", "https", "resource", "mem", "ftp"}

\* __new__: "Work out the subclass from the URI scheme"; "none" where it
\* raises NotImplementedError.
SubclassOf(scheme) ==
    IF scheme = "" THEN "schemeless"
    ELSE IF scheme = "file" THEN "file"
    ELSE IF scheme = "s3" THEN "s3"
    ELSE IF scheme \in {"http", "https"} THEN "http"
    ELSE IF scheme = "resource" THEN "resource"
    ELSE IF scheme = "mem" THEN "mem"
    ELSE "none"

\* quotePaths: True, but for the schemeless subclass.
quotePaths(cls) == cls # "schemeless"

\* ButlerURI._fixupPathUri: dir-like when forced or when the path ends on the
\* separator, which is appended when missing.
fixupPathUri(parsed, forceDirectory) ==
    LET endsOnSep == EndsOnSep(parsed.path)
    IN  IF forceDirectory \/ endsOnSep
        THEN [parsed  |-> IF ~endsOnSep THEN [parsed EXCEPT !.path = parsed.path \o <<"/">>]
                          ELSE parsed,
              dirLike |-> TRUE]
        ELSE [parsed |-> parsed, dirLike |-> FALSE]

\* _fixupPathUri of the schemeless and file subclasses: a schemeless path
\* that is forced absolute becomes a quoted path of scheme "file", under the
\* root directory when it is relative; with forceAbsolute=False it stays
\* schemeless and unquoted. The path is normalized and dir-likeness is as
\* above.
RootDirectory == <<"/", "t">>
fixupLocalPathUri(parsed, forceAbsolute, forceDirectory) ==
    LET plain    == unquote(parsed.path)
        dirLike  == forceDirectory \/ EndsOnSep(plain)
        absolute == parsed.scheme = "file" \/ forceAbsolute
        full     == normpath(IF absolute THEN posixpath_join(RootDirectory, plain) ELSE plain)
        slashed  == IF dirLike /\ ~EndsOnSep(full) THEN full \o <<"/">> ELSE full
    IN  [parsed  |-> IF absolute
                     THEN [parsed EXCEPT !.scheme = "file", !.path = quote(slashed)]
                     ELSE [parsed EXCEPT !.path = slashed],
         dirLike |-> dirLike]

\* (mutant) the instance is of the subclass found before the fix-up.
ButlerURIKeepsSubclass(parsed, forceAbsolute, forceDirectory) ==
    LET subclass == SubclassOf(parsed.scheme)
        fixed    == IF subclass \in {"schemeless", "file"}
                    THEN fixupLocalPathUri(parsed, forceAbsolute, forceDirectory)
                    ELSE fixupPathUri(parsed, forceDirectory)
    IN  IF subclass = "none"
        THEN [raised |-> "NotImplementedError", uri |-> NoUriObject]
        ELSE [raised |-> "none",
              uri |-> Uri(subclass, fixed.parsed.scheme, fixed.parsed.netloc,
                          fixed.parsed.path, fixed.dirLike)]

\* ButlerURI(uri: ParseResult, forceAbsolute, forceDirectory): the subclass of
\* the scheme fixes the components up; a fix-up that leaves scheme "file"
\* makes the instance one of the file subclass.
ButlerURI(parsed, forceAbsolute, forceDirectory) ==
    LET subclass == SubclassOf(parsed.scheme)
        fixed    == IF subclass \in {"schemeless", "file"}
                    THEN fixupLocalPathUri(parsed, forceAbsolute, forceDirectory)
                    ELSE fixupPathUri(parsed, forceDirectory)
        cls      == IF fixed.parsed.scheme = "file" THEN "file" ELSE subclass
    IN  IF subclass = "none"
        THEN [raised |-> "NotImplementedError", uri |-> NoUriObject]
        ELSE [raised |-> "none",
              uri |-> Uri(cls, fixed.parsed.scheme, fixed.parsed.netloc, fixed.parsed.path,
                          fixed.dirLike)]

\* ESCAPES_RE.search: "%" and two of the characters A-F, 0-9.
HasEscapes(s) ==
    \E i \in 1..(Len(s) - 2) :
        s[i] = "%" /\ s[i + 1] \in {"2", "3", "5"} /\ s[i + 2] \in {"2", "3", "5"}

\* ButlerURI(uri: str, ...): a string without "://" is quoted before it is
\* parsed, unless it holds escapes already.
ButlerURIFromStr(input, forceAbsolute, forceDirectory) ==
    ButlerURI(IF input.scheme = "" /\ ~HasEscapes(input.path)
              THEN [input EXCEPT !.path = quote(input.path)]
              ELSE input,
              forceAbsolute, forceDirectory)

\* geturl(): urlunparse of the components.
geturl(u) ==
    IF u.scheme = "" /\ u.netloc = "" THEN u.path
    ELSE <<u.scheme, ":", "/", "/", u.netloc>>
         \o (IF u.path # <<>> /\ u.path[1] # "/" THEN <<"/">> ELSE <<>>) \o u.path

\* __eq__: "self.geturl() == other.geturl()"
UriEq(u, v) == geturl(u) = geturl(v)

\* relativeToPathRoot
relativeToPathRoot(u) ==
    LET p         == PurePosixPath(u.path)
        relToRoot == path_str(path_relative_to(p, PurePosixPath(p.root)).path)
    IN  unquote(IF u.dirLike /\ ~EndsOnSep(relToRoot) THEN relToRoot \o <<"/">>
                ELSE relToRoot)

\* is_root
is_root(u) == relativeToPathRoot(u) = <<".", "/">>

\* split(): the head as a directory URI of the same components, the tail
\* unquoted.
split(u) ==
    LET ht      == posixpath_split(u.path)
        headuri == ParseResult(u.scheme, u.netloc, ht[1])
    IN  [head |-> ButlerURI(headuri, isabs(u.path), TRUE).uri, tail |-> unquote(ht[2])]

\* dirname(): "self.split()[0]"
dirname(u) == split(u).head

\* (mutant) the parent of a directory is taken with dirname(), which drops
\* the trailing separator and no component.
parentByDirname(u) == dirname(u)

\* parent()
parent(u) ==
    IF ~u.dirLike THEN dirname(u)
    ELSE ButlerURI(ParseResult(u.scheme, u.netloc,
                               path_str(path_parent(PurePosixPath(u.path)))),
                   TRUE, TRUE).uri

\* ButlerURI(uri: ButlerURI, forceDirectory=...): the components and dirLike
\* of the instance passed are taken as they are, without fix-up.
ButlerURIFromUri(u, forceDirectory) == Uri(u.cls, u.scheme, u.netloc, u.path, u.dirLike)

\* replace(path=...): "self.__class__(self._uri._replace(**kwargs))"
replace(u, scheme, path) == ButlerURI(ParseResult(scheme, u.netloc, path), TRUE, FALSE)

\* updateFile(newfile): in place
updateFile(u, newfile) ==
    LET quoted == IF quotePaths(u.cls) THEN quote(newfile) ELSE newfile
        dir    == posixpath_split(u.path)[1]
    IN  [u EXCEPT !.path = posixpath_join(dir, quoted), !.dirLike = FALSE]

\* join(path)
join(u, path) ==
    LET new     == dirname(u)
        quoted  == IF quotePaths(new.cls) THEN quote(path) ELSE path
        newpath == normpath(posixpath_join(new.path, quoted))
    IN  [new EXCEPT !.path = newpath,
                    !.dirLike = IF ~EndsOnSep(quoted) THEN FALSE ELSE new.dirLike]

\* relative_to(other): None, or the sub-path
None == [none |-> TRUE, str |-> <<>>]
Str(s) == [none |-> FALSE, str |-> s]
relative_to(u, other) ==
    IF u.scheme # other.scheme \/ u.netloc # other.netloc THEN None
    ELSE LET enclosed_path == PurePosixPath(relativeToPathRoot(u))
             parent_path   == PurePosixPath(relativeToPathRoot(other))
             subpath       == path_relative_to(enclosed_path, parent_path)
         IN  IF subpath.raised THEN None ELSE Str(unquote(path_str(subpath.path)))

\* The operations on the URI object, each with its arguments and results;
\* "other" is the URI passed to relative_to, or the components and
\* forceDirectory passed to the constructor.
Entry(op, self, arg, other, result, value, raised) ==
    [op |-> op, self |-> self, arg |-> arg, other |-> other, result |-> result,
     value |-> value, raised |-> raised]
Log(entry) == uriLog' = Append(uriLog, entry)

\* The subclasses whose path operations are those of ButlerURI itself.
BaseClasses == {"s3", "http", "resource", "mem"}

\* The strings URIs are constructed from, as urlparse splits them.
InputPaths ==
    {<<>>, <<"/">>, <<"/", "a">>, <<"/", "a", "/">>, <<"/", "a", "/", "b">>,
     <<"/", "a", "/", "b", "/">>, <<"/", ".", "/">>, <<"/", "a", "/", ".", ".", "/", "b">>,
     <<"/", "a", "/", "b", "/", ".", ".", "/", "x">>}
Inputs ==
    {ParseResult(scheme, "h", path) : scheme \in {"http", "s3"}, path \in InputPaths}
    \cup {ParseResult(scheme, "h", <<"/", "a">>) : scheme \in {"https", "resource", "mem", "ftp"}}
    \cup {ParseResult("file", "", <<"/", "a", "/", "b">>)}
    \cup {ParseResult("", "", path) : path \in {<<"a", "/", "b">>, <<"a", "/">>, <<"/", "a">>}}

\* The paths joined, the file names put in place of the last component, the
\* paths put in place of the path.
JoinPaths ==
    {<<"a", "/", "b", ".", "t", "x", "t">>, <<"a", "/">>, <<"x">>, <<"%", "2", "3">>}
FileNames == {<<"t">>, <<"#">>}
ReplacePaths == {<<"/", "b">>, <<"/", "b", "/">>}

\* The URIs relative_to is asked about: the objects met so far and three
\* others.
Others ==
    {Uri("http", "http", "h", <<"/", "a", "/", "b", "/">>, TRUE),
     Uri("http", "http", "g", <<"/", "a", "/">>, TRUE),
     Uri("s3", "s3", "h", <<"/", "a", "/">>, TRUE)}
Met == {uriLog[i].self : i \in 1..Len(uriLog)} \ {NoUriObject}

\* uri = ButlerURI(str, forceAbsolute=..., forceDirectory=...): the object the
\* operations that follow are called on.
NewUri(input, forceAbsolute, forceDirectory) ==
    /\ uriLog = <<>>
    /\ LET new == ButlerURIFromStr(input, forceAbsolute, forceDirectory)
       IN  /\ uri' = IF new.raised = "none" THEN new.uri ELSE uri
           /\ Log(Entry("new", NoUriObject,
                        IF forceAbsolute THEN <<"forceAbsolute">> ELSE <<>>,
                        Uri("none", input.scheme, input.netloc, input.path, forceDirectory),
                        new.uri, None, new.raised))
    /\ UNCHANGED <<handleVars, transferVars, sessionVars, requestVars, walkVars, davVars, probeVars, mkdirVars, raceVars, retryVars, authVars>>

\* uri = uri.join(path)
Join(path) ==
    /\ Len(uriLog) < MaxOps
    /\ uri.cls \in BaseClasses
    /\ uri' = join(uri, path)
    /\ Log(Entry("join", uri, path, NoUriObject, join(uri, path), None, "none"))
    /\ UNCHANGED <<handleVars, transferVars, sessionVars, requestVars, walkVars, davVars, probeVars, mkdirVars, raceVars, retryVars, authVars>>

\* uri.updateFile(newfile)
UpdateFile(newfile) ==
    /\ Len(uriLog) < MaxOps
    /\ uri.cls \in BaseClasses
    /\ uri' = updateFile(uri, newfile)
    /\ Log(Entry("updateFile", uri, newfile, NoUriObject, updateFile(uri, newfile), None,
                 "none"))
    /\ UNCHANGED <<handleVars, transferVars, sessionVars, requestVars, walkVars, davVars, probeVars, mkdirVars, raceVars, retryVars, authVars>>

\* uri = uri.replace(scheme=..., path=...)
Replace(scheme, path) ==
    /\ Len(uriLog) < MaxOps
    /\ uri.cls \in BaseClasses
    /\ LET new == replace(uri, scheme, path)
       IN  /\ uri' = IF new.raised = "none" THEN new.uri ELSE uri
           /\ Log(Entry("replace", uri, <<"forceAbsolute">>,
                        Uri("none", scheme, uri.netloc, path, FALSE),
                        new.uri, None, new.raised))
    /\ UNCHANGED <<handleVars, transferVars, sessionVars, requestVars, walkVars, davVars, probeVars, mkdirVars, raceVars, retryVars, authVars>>

\* uri, tail = uri.split()
Split ==
    /\ Len(uriLog) < MaxOps
    /\ uri.cls \in BaseClasses
    /\ uri' = split(uri).head
    /\ Log(Entry("split", uri, <<>>, NoUriObject, split(uri).head, Str(split(uri).tail),
                 "none"))
    /\ UNCHANGED <<handleVars, transferVars, sessionVars, requestVars, walkVars, davVars, probeVars, mkdirVars, raceVars, retryVars, authVars>>

\* uri = uri.dirname()
Dirname ==
    /\ Len(uriLog) < MaxOps
    /\ uri.cls \in BaseClasses
    /\ uri' = dirname(uri)
    /\ Log(Entry("dirname", uri, <<>>, NoUriObject, dirname(uri), None, "none"))
    /\ UNCHANGED <<handleVars, transferVars, sessionVars, requestVars, walkVars, davVars, probeVars, mkdirVars, raceVars, retryVars, authVars>>

\* uri = uri.parent()
ParentOf ==
    /\ Len(uriLog) < MaxOps
    /\ uri.cls \in BaseClasses
    /\ uri' = parent(uri)
    /\ Log(Entry("parent", uri, <<>>, NoUriObject, parent(uri), None, "none"))
    /\ UNCHANGED <<handleVars, transferVars, sessionVars, requestVars, walkVars, davVars, probeVars, mkdirVars, raceVars, retryVars, authVars>>

\* uri.relative_to(other)
RelativeTo(other) ==
    /\ Len(uriLog) < MaxOps
    /\ uri.cls \in BaseClasses
    /\ other.cls \in BaseClasses
    /\ Log(Entry("relative_to", uri, <<>>, other, uri, relative_to(uri, other), "none"))
    /\ UNCHANGED uri
    /\ UNCHANGED <<handleVars, transferVars, sessionVars, requestVars, walkVars, davVars, probeVars, mkdirVars, raceVars, retryVars, authVars>>

NextUri ==
    \/ \E input \in Inputs, forceDirectory \in BOOLEAN :
        \E forceAbsolute \in (IF input.scheme = "" THEN BOOLEAN ELSE {TRUE}) :
            NewUri(input, forceAbsolute, forceDirectory)
    \/ \E path \in JoinPaths : Join(path)
    \/ \E newfile \in FileNames : UpdateFile(newfile)
    \/ \E scheme \in {uri.scheme, "file", "ftp"}, path \in ReplacePaths : Replace(scheme, path)
    \/ Split
    \/ Dirname
    \/ ParentOf
    \/ \E other \in Others \cup Met : RelativeTo(other)

InitUri == InitHandle /\ NoTransfer /\ NoSessions /\ NoRequest /\ NoWalk /\ NoUri /\ NoDav /\ NoProbe /\ NoMkdir /\ NoRace /\ NoRetry /\ NoAuth

SpecUri == InitUri /\ [][NextUri]_vars

\* ------------------------------------------------------ claims on the URIs
\* The URI objects made so far.
Made == ({uri} \cup {uriLog[i].result : i \in 1..Len(uriLog)}) \ {NoUriObject}

\* C21: every URI made by the constructor, join, updateFile, replace, split,
\* dirname and parent is dir-like if and only if its path, as stringified,
\* ends with the separator.
C21_DirLikeIffTrailingSeparator == \A u \in Made : u.dirLike <=> EndsOnSep(u.path)

\* C22: the split of x.join("a/b.txt") is the pair of x.join("a/"), taken as a
\* directory, and "b.txt".
A_B_TXT == <<"a", "/", "b", ".", "t", "x", "t">>
C22_JoinThenSplit ==
    \A i \in 1..(Len(uriLog) - 1) :
        (uriLog[i].op = "join" /\ uriLog[i].arg = A_B_TXT /\ uriLog[i + 1].op = "split")
            => /\ UriEq(uriLog[i + 1].result,
                        ButlerURIFromUri(join(uriLog[i].self, <<"a", "/">>), TRUE))
               /\ uriLog[i + 1].value = Str(<<"b", ".", "t", "x", "t">>)

\* C23: for a directory URI d and a relative path p to a file, given
\* unquoted, d.join(p).relative_to(d) is p.
C23_JoinThenRelativeTo ==
    \A i \in 1..(Len(uriLog) - 1) :
        (/\ uriLog[i].op = "join"
         /\ uriLog[i].self.dirLike
         /\ EndsOnSep(uriLog[i].self.path)
         /\ ~EndsOnSep(uriLog[i].arg)
         /\ uriLog[i + 1].op = "relative_to"
         /\ uriLog[i + 1].other = uriLog[i].self)
            => uriLog[i + 1].value = Str(uriLog[i].arg)

\* C24: relative_to(other) does not raise; it is None when the schemes or the
\* network locations differ and when the path of self, its ".." segments
\* resolved, does not lie under the path of other; else it is a sub-path.
ResolvedParts(u) == PurePosixPath(normpath(unquote(u.path))).parts
Descendant(u, other) ==
    /\ u.scheme = other.scheme
    /\ u.netloc = other.netloc
    /\ IsPrefix(ResolvedParts(other), ResolvedParts(u))
C24_RelativeToOnlyDescendants ==
    \A i \in 1..Len(uriLog) :
        uriLog[i].op = "relative_to"
            => /\ uriLog[i].raised = "none"
               /\ uriLog[i].value.none <=> ~Descendant(uriLog[i].self, uriLog[i].other)

\* C25: parent() of a file-like URI is its dirname(); parent() of a dir-like
\* URI is dir-like and has the components of the URI but the last; parent()
\* of a root is a root, that root itself when its path is "/", and a root is
\* its own parent from then on. Each parent() of a URI that is not a root
\* has fewer steps left to the root, so the root is reached.
Components(u) == PurePosixPath(u.path).parts
StepsToRoot(u) == Len(Components(u)) + (IF u.dirLike THEN 0 ELSE 1)
StatusTexts ==
    {<<"HTTP/1.1", "200", "OK">>, <<"HTTP/1.1", "404", "Not", "Found">>,
     <<"HTTP/1.1", "200">>, <<>>}

\* DavProperty._status_ok_rex, "^HTTP/.* 200 .*$": the text starts with HTTP/
\* and holds " 200 " after it, that is, 200 as a word that is not the last.
status_ok_rex(status) ==
    /\ Len(status) >= 1
    /\ status[1] \in {"HTTP/1.1"}
    /\ \E i \in 2..(Len(status) - 1) : status[i] = "200"

\* One propstat element: its status, whether its prop holds
\* resourcetype/collection, and its getcontentlength if it holds one.
Propstats ==
    [status : StatusTexts, collection : BOOLEAN, hasLength : BOOLEAN, length : 0..MaxLength]
RECURSIVE PropstatLists(_)
PropstatLists(n) ==
    IF n = 0 THEN {<<>>}
    ELSE PropstatLists(n - 1)
         \cup {Append(l, ps) : l \in {x \in PropstatLists(n - 1) : Len(x) = n - 1},
                               ps \in {x \in Propstats : x.hasLength \/ x.length = 0}}

\* (mutant) the properties of every propstat are taken, whatever its status.
RECURSIVE ParseAnyStatus(_, _, _)
ParseAnyStatus(propstats, i, self) ==
    IF i > Len(propstats) THEN self
    ELSE ParseAnyStatus(propstats, i + 1,
           [collection |-> self.collection \/ propstats[i].collection,
            getcontentlength |-> IF propstats[i].hasLength THEN propstats[i].length
                                 ELSE self.getcontentlength])

\* The loop of DavProperty._parse over the propstat elements from the i-th on.
RECURSIVE Parse(_, _, _)
Parse(propstats, i, self) ==
    IF i > Len(propstats) THEN self
    ELSE IF ~status_ok_rex(propstats[i].status) THEN Parse(propstats, i + 1, self)
    ELSE Parse(propstats, i + 1,
           [collection |-> self.collection \/ propstats[i].collection,
            getcontentlength |-> IF propstats[i].hasLength THEN propstats[i].length
                                 ELSE self.getcontentlength])

\* DavProperty(response): ValueError without href; a size of 0 is forced for
\* collections.
DavProperty(response) ==
    IF ~response.href
    THEN [built |-> FALSE, collection |-> FALSE, getcontentlength |-> -1]
    ELSE LET parsed == Parse(response.propstats, 1,
                             [collection |-> FALSE, getcontentlength |-> -1])
         IN  [built |-> TRUE, collection |-> parsed.collection,
              getcontentlength |-> IF parsed.collection THEN 0
                                   ELSE parsed.getcontentlength]

prop_exists(prop) == prop.collection \/ prop.getcontentlength >= 0
prop_is_directory(prop) == prop.collection
prop_is_file(prop) == ~prop.collection
prop_size(prop) == prop.getcontentlength

\* The answers to PROPFIND as _propfind lets them through (207 with the
\* response element of the resource, or 404), and the answers to HEAD.
DavAnswer(code, href, propstats, hasLength, length) ==
    [code |-> code, href |-> href, propstats |-> propstats, hasLength |-> hasLength,
     length |-> length]
PropfindResponses ==
    {DavAnswer(multi_status, href, l, FALSE, 0) :
        href \in BOOLEAN, l \in PropstatLists(MaxPropstats)}
    \cup {DavAnswer(not_found, FALSE, <<>>, FALSE, 0)}
HeadResponses ==
    {DavAnswer(ok, FALSE, <<>>, TRUE, n) : n \in 0..MaxLength}
    \cup {DavAnswer(code, FALSE, <<>>, FALSE, 0) : code \in {ok, not_found, forbidden}}

Returned(value) == [raised |-> "none", value |-> value, exists |-> FALSE]
ReturnedBool(b) == [raised |-> "none", value |-> 0, exists |-> b]
Raised(exception) == [raised |-> exception, value |-> 0, exists |-> FALSE]
NoProp == [built |-> FALSE, collection |-> FALSE, getcontentlength |-> -1]

\* size(); one call is followed, on a path that is dir-like or not and whose
\* endpoint was found to be a WebDAV server or not.
Size(dirLike, webdav) ==
    /\ davCall.op = "none"
    /\ davCall' = [op |-> "size", dirLike |-> dirLike, webdav |-> webdav]
    /\ IF dirLike
       THEN /\ davAnswer' = DavAnswer(0, FALSE, <<>>, FALSE, 0)
            /\ davProp' = NoProp
            /\ davOutcome' = Returned(0)
       ELSE IF ~webdav
       THEN \E resp \in HeadResponses :
            /\ davAnswer' = resp
            /\ davProp' = NoProp
            /\ davOutcome' =
                 IF resp.code = ok
                 THEN IF resp.hasLength THEN Returned(resp.length) ELSE Raised("ValueError")
                 ELSE IF resp.code = not_found THEN Raised("FileNotFoundError")
                 ELSE Raised("ValueError")
       ELSE \E resp \in PropfindResponses :
            /\ davAnswer' = resp
            /\ IF resp.code = multi_status
               THEN LET prop == DavProperty(resp) IN
                    /\ davProp' = prop
                    /\ davOutcome' =
                         IF ~prop.built THEN Raised("ValueError")
                         ELSE IF prop_is_file(prop) THEN Returned(prop_size(prop))
                         ELSE IF prop_is_directory(prop) THEN Raised("IsADirectoryError")
                         ELSE Raised("FileNotFoundError")
               ELSE /\ davProp' = NoProp
                    /\ davOutcome' = Raised("FileNotFoundError")
    /\ UNCHANGED <<handleVars, transferVars, sessionVars, requestVars, walkVars, uriVars, probeVars, mkdirVars, raceVars, retryVars, authVars>>

\* exists()
Exists(dirLike, webdav) ==
    /\ davCall.op = "none"
    /\ davCall' = [op |-> "exists", dirLike |-> dirLike, webdav |-> webdav]
    /\ IF ~webdav
       THEN \E resp \in HeadResponses :
            /\ davAnswer' = resp
            /\ davProp' = NoProp
            /\ davOutcome' = ReturnedBool(resp.code = ok)
       ELSE \E resp \in PropfindResponses :
            /\ davAnswer' = resp
            /\ IF resp.code = multi_status
               THEN LET prop == DavProperty(resp) IN
                    /\ davProp' = prop
                    /\ davOutcome' = IF ~prop.built THEN Raised("ValueError")
                                     ELSE ReturnedBool(prop_exists(prop))
               ELSE /\ davProp' = NoProp
                    /\ davOutcome' = ReturnedBool(FALSE)
    /\ UNCHANGED <<handleVars, transferVars, sessionVars, requestVars, walkVars, uriVars, probeVars, mkdirVars, raceVars, retryVars, authVars>>

NextDav ==
    \/ \E dirLike \in BOOLEAN, webdav \in BOOLEAN : Size(dirLike, webdav)
    \/ \E dirLike \in BOOLEAN, webdav \in BOOLEAN : Exists(dirLike, webdav)

InitDav == InitHandle /\ NoTransfer /\ NoSessions /\ NoRequest /\ NoWalk /\ NoUri /\ NoDav /\ NoProbe /\ NoMkdir /\ NoRace /\ NoRetry /\ NoAuth

SpecDav == InitDav /\ [][NextDav]_vars

\* ------------------------------------------------- claims on DavProperty
\* A propstat of the answer with status 200 OK for which P holds.
OkPropstats == {i \in 1..Len(davAnswer.propstats) :
                    /\ Len(davAnswer.propstats[i].status) >= 3
                    /\ davAnswer.propstats[i].status[2] = "200"
                    /\ davAnswer.propstats[i].status[3] = "OK"}
OkLengths == {i \in OkPropstats : davAnswer.propstats[i].hasLength}

\* C35: the DavProperty built from a response element is a directory if and
\* only if a propstat with status 200 OK holds resourcetype/collection; its
\* size is 0 for a directory and otherwise a getcontentlength found under a
\* 200 OK propstat; when the 200 OK propstats hold neither, the resource is
\* reported as not existing, whatever the other propstats hold.
C35_OnlyOkPropstatsHonoured ==
    davProp.built =>
        /\ prop_is_directory(davProp)
             <=> \E i \in OkPropstats : davAnswer.propstats[i].collection
        /\ prop_is_directory(davProp) => prop_size(davProp) = 0
        /\ (~prop_is_directory(davProp) /\ OkLengths # {})
             => \E i \in OkLengths : prop_size(davProp) = davAnswer.propstats[i].length
        /\ (~prop_is_directory(davProp) /\ OkLengths = {}) => ~prop_exists(davProp)

C35_Witness ==
    /\ davProp.built
    /\ ~prop_exists(davProp)
    /\ \E i \in 1..Len(davAnswer.propstats) :
         /\ davAnswer.propstats[i].collection
         /\ davAnswer.propstats[i].hasLength
         /\ i \notin OkPropstats

\* C36: size() of a file-like path on a WebDAV endpoint returns a
\* non-negative byte count or raises; when the 207 answer holds no
\* getcontentlength under a 200 OK propstat and the resource is no directory,
\* it raises FileNotFoundError.
C36_SizeNeverNegative ==
    (davCall.op = "size" /\ ~davCall.dirLike /\ davCall.webdav)
    => /\ davOutcome.raised = "none" => davOutcome.value >= 0
       /\ (/\ davAnswer.code = multi_status
           /\ davAnswer.href
           /\ OkLengths = {}
           /\ ~prop_is_directory(davProp))
          => davOutcome.raised = "FileNotFoundError"

\* ------------------------------------------------- endpoint classification
\* root_uri() of the instances: the first and the last share root "A".
ProbeRootOrder == <<"A", "B", "C">>
root_uri(i) == ProbeRootOrder[((i - 1) % Len(ProbeRootOrder)) + 1]

\* The answers to OPTIONS: 200 or 201 with a DAV header or none, another
\* status, or no answer (SSLError and the like).
DavHeaders ==
    {[present |-> FALSE, classes |-> <<>>], [present |-> TRUE, classes |-> <<"1", "2">>],
     [present |-> TRUE, classes |-> <<"2">>]}
ProbeAnswers ==
    {[raised |-> FALSE, code |-> code, dav |-> h] : code \in {ok, created}, h \in DavHeaders}
    \cup {[raised |-> FALSE, code |-> forbidden, dav |-> [present |-> FALSE, classes |-> <<>>]],
          [raised |-> TRUE, code |-> 0, dav |-> [present |-> FALSE, classes |-> <<>>]]}

\* The body of _is_webdav_endpoint on an answer: "raised", "dav" or "plain".
is_webdav_endpoint(resp) ==
    IF resp.raised THEN "raised"
    ELSE IF resp.code \notin {ok, created} THEN "raised"
    ELSE IF ~resp.dav.present THEN "plain"
    ELSE IF \E k \in 1..Len(resp.dav.classes) : resp.dav.classes[k] = "1" THEN "dav"
    ELSE "plain"

\* functools.lru_cache: the position of a key, 0 when it is not cached.
CacheIndex(cache, key) ==
    IF \E k \in 1..Len(cache) : cache[k].key = key
    THEN CHOOSE k \in 1..Len(cache) : cache[k].key = key
    ELSE 0
\* a hit moves the entry to the front
CacheHit(cache, k) ==
    <<cache[k]>> \o SubSeq(cache, 1, k - 1) \o SubSeq(cache, k + 1, Len(cache))
\* a miss stores the result in front; the least recently used one is dropped
\* when maxsize results are held
CacheStore(cache, key, value) ==
    <<[key |-> key, value |-> value]>> \o
        (IF Len(cache) >= maxsize THEN SubSeq(cache, 1, maxsize - 1) ELSE cache)

\* Instance i evaluates is_webdav_endpoint.
IsWebdavEndpoint(i) ==
    /\ IF isWebdav[i] # "none"
       THEN /\ probeLast' = [inst |-> i, result |-> isWebdav[i], sent |-> FALSE]
            /\ UNCHANGED <<lruCache, isWebdav, optionsCount, firstResult>>
       ELSE IF CacheIndex(lruCache, root_uri(i)) # 0
       THEN LET k == CacheIndex(lruCache, root_uri(i)) IN
            /\ lruCache' = CacheHit(lruCache, k)
            /\ isWebdav' = [isWebdav EXCEPT ![i] = lruCache[k].value]
            /\ probeLast' = [inst |-> i, result |-> lruCache[k].value, sent |-> FALSE]
            /\ UNCHANGED <<optionsCount, firstResult>>
       ELSE /\ optionsCount < MaxProbes
            /\ optionsCount' = optionsCount + 1
            /\ \E resp \in ProbeAnswers :
                 LET result == is_webdav_endpoint(resp) IN
                 /\ probeLast' = [inst |-> i, result |-> result, sent |-> TRUE]
                 /\ IF result = "raised"
                    THEN UNCHANGED <<lruCache, isWebdav, firstResult>>
                    ELSE /\ lruCache' = CacheStore(lruCache, root_uri(i), result)
                         /\ isWebdav' = [isWebdav EXCEPT ![i] = result]
                         /\ firstResult' =
                              IF firstResult[root_uri(i)] = "none"
                              THEN [firstResult EXCEPT ![root_uri(i)] = result]
                              ELSE firstResult
    /\ UNCHANGED <<handleVars, transferVars, sessionVars, requestVars, walkVars, uriVars,
                   davVars, mkdirVars, raceVars, retryVars, authVars>>

NextProbe == \E i \in 1..NumProbers : IsWebdavEndpoint(i)

InitProbe ==
    InitHandle /\ NoTransfer /\ NoSessions /\ NoRequest /\ NoWalk /\ NoUri /\ NoDav /\ NoProbe /\ NoMkdir /\ NoRace /\ NoRetry /\ NoAuth

SpecProbe == InitProbe /\ [][NextProbe]_vars

\* C33: once a probe of a root has returned a result, no later evaluation of
\* is_webdav_endpoint on that root, by any instance, sends an OPTIONS request,
\* and every one returns that result.
C33_OneProbePerAuthority ==
    [][\A i \in 1..NumProbers :
         (probeLast'.inst = i /\ firstResult[root_uri(i)] # "none" /\ probeLast' # probeLast)
         => /\ optionsCount' = optionsCount
            /\ probeLast'.result = firstResult[root_uri(i)]]_vars

\* ------------------------------------------------------- concurrent mkdir
\* The callers call mkdir() on the directory of level Depth of one WebDAV
\* server; level 0 is the root, whose parent is the root itself.

\* The answer of the server to MKCOL on a level: 405 when the collection
\* exists, 409 when its parent is missing, 201 when it creates it; or it
\* refuses the request with 403.
MkcolReplies(l) ==
    {IF mkDirs[l] THEN method_not_allowed
     ELSE IF l > 0 /\ ~mkDirs[l - 1] THEN conflict
     ELSE created,
     forbidden}

\* mkdir() of level l returns to mkdir() of level l + 1, which goes on with
\* its _mkcol(); the outermost call returns to the caller.
MkdirReturns(t, l) ==
    IF l = Depth
    THEN /\ mkPc' = [mkPc EXCEPT ![t] = "done"]
         /\ mkOutcome' = [mkOutcome EXCEPT ![t] = "returned"]
         /\ UNCHANGED mkLevel
    ELSE /\ mkPc' = [mkPc EXCEPT ![t] = "mkcol"]
         /\ mkLevel' = [mkLevel EXCEPT ![t] = l + 1]
         /\ UNCHANGED mkOutcome

MkdirRaises(t, exception) ==
    /\ mkPc' = [mkPc EXCEPT ![t] = "done"]
    /\ mkOutcome' = [mkOutcome EXCEPT ![t] = exception]
    /\ UNCHANGED mkLevel

\* mkdir() is called: the endpoint is a WebDAV server and the path dir-like.
MkdirCall(t) ==
    /\ mkPc[t] = "idle"
    /\ mkPc' = [mkPc EXCEPT ![t] = "propfind"]
    /\ mkLevel' = [mkLevel EXCEPT ![t] = Depth]
    /\ UNCHANGED <<mkDirs, mkLast, mkFailed, mkOutcome>>
    /\ UNCHANGED <<handleVars, transferVars, sessionVars, requestVars, walkVars, uriVars,
                   davVars, probeVars, raceVars, retryVars, authVars>>

\* mkdir(): the PROPFIND that tells whether the directory exists, then the
\* call of mkdir() of the parent when it does not.
MkdirPropfindBy(t) ==
    /\ mkPc[t] = "propfind"
    /\ LET l == mkLevel[t] IN
       /\ mkLast' = [mkLast EXCEPT ![t] =
                       [method |-> "PROPFIND", level |-> l,
                        code |-> IF mkDirs[l] THEN multi_status ELSE not_found]]
       /\ IF mkDirs[l] THEN MkdirReturns(t, l)
          ELSE IF l > 0
          THEN /\ mkLevel' = [mkLevel EXCEPT ![t] = l - 1]
               /\ UNCHANGED <<mkPc, mkOutcome>>
          ELSE /\ mkPc' = [mkPc EXCEPT ![t] = "mkcol"]
               /\ UNCHANGED <<mkLevel, mkOutcome>>
    /\ UNCHANGED <<mkDirs, mkFailed>>
    /\ UNCHANGED <<handleVars, transferVars, sessionVars, requestVars, walkVars, uriVars,
                   davVars, probeVars, raceVars, retryVars, authVars>>

\* (mutant) _mkcol() that takes 201 only
MkdirMkcolStrictBy(t) ==
    /\ mkPc[t] = "mkcol"
    /\ LET l == mkLevel[t] IN
       \E code \in MkcolReplies(l) :
         /\ mkLast' = [mkLast EXCEPT ![t] = [method |-> "MKCOL", level |-> l, code |-> code]]
         /\ mkDirs' = IF code = created THEN [mkDirs EXCEPT ![l] = TRUE] ELSE mkDirs
         /\ mkFailed' = IF code = forbidden THEN [mkFailed EXCEPT ![t] = TRUE] ELSE mkFailed
         /\ IF code = created THEN MkdirReturns(t, l)
            ELSE MkdirRaises(t, "ValueError")
    /\ UNCHANGED <<handleVars, transferVars, sessionVars, requestVars, walkVars, uriVars,
                   davVars, probeVars, raceVars, retryVars, authVars>>

\* _mkcol(): 201 and 405 are taken, any other status raises ValueError.
MkdirMkcolBy(t) ==
    /\ mkPc[t] = "mkcol"
    /\ LET l == mkLevel[t] IN
       \E code \in MkcolReplies(l) :
         /\ mkLast' = [mkLast EXCEPT ![t] = [method |-> "MKCOL", level |-> l, code |-> code]]
         /\ mkDirs' = IF code = created THEN [mkDirs EXCEPT ![l] = TRUE] ELSE mkDirs
         /\ mkFailed' = IF code = forbidden THEN [mkFailed EXCEPT ![t] = TRUE] ELSE mkFailed
         /\ IF code \in {created, method_not_allowed} THEN MkdirReturns(t, l)
            ELSE MkdirRaises(t, "ValueError")
    /\ UNCHANGED <<handleVars, transferVars, sessionVars, requestVars, walkVars, uriVars,
                   davVars, probeVars, raceVars, retryVars, authVars>>

NextMkdir ==
    \/ \E t \in Callers : MkdirCall(t)
    \/ \E t \in Callers : MkdirPropfindBy(t)
    \/ \E t \in Callers : MkdirMkcolBy(t)

\* The directory of level Depth is missing; its ancestors exist down to some
\* level.
InitMkdir ==
    /\ InitHandle /\ NoTransfer /\ NoSessions /\ NoRequest /\ NoWalk /\ NoUri /\ NoDav
    /\ NoProbe /\ NoRace /\ NoRetry /\ NoAuth
    /\ \E k \in 0..(Depth - 1) : mkDirs = [l \in 0..Depth |-> l <= k]
    /\ mkPc = [t \in Callers |-> "idle"]
    /\ mkLevel = [t \in Callers |-> Depth]
    /\ mkLast = [t \in Callers |-> [method |-> "none", level |-> 0, code |-> 0]]
    /\ mkFailed = [t \in Callers |-> FALSE]
    /\ mkOutcome = [t \in Callers |-> "none"]

SpecMkdir == InitMkdir /\ [][NextMkdir]_vars

\* C31: callers that run mkdir concurrently on one missing directory all
\* return without error, in every interleaving, unless the server refused a
\* request of theirs: an MKCOL answered 405 because another caller made the
\* directory first counts as done; any MKCOL status other than 201 and 405
\* raises.
C31_ConcurrentMkdir ==
    \A t \in Callers :
        /\ (mkPc[t] = "done" /\ ~mkFailed[t])
             => (mkOutcome[t] = "returned" /\ mkDirs[Depth])
        /\ (mkLast[t].method = "MKCOL" /\ mkLast[t].code \notin {created, method_not_allowed})
             => mkOutcome[t] = "ValueError"
        /\ (mkLast[t].method = "MKCOL" /\ mkLast[t].code = method_not_allowed)
             => mkOutcome[t] \in {"none", "returned"}

C31_Witness ==
    \E t \in Callers, u \in Callers :
        /\ t # u
        /\ mkOutcome[t] = "returned"
        /\ mkOutcome[u] = "returned"
        /\ mkLast[t] = [method |-> "MKCOL", level |-> Depth, code |-> created]
        /\ mkLast[u] = [method |-> "MKCOL", level |-> Depth, code |-> method_not_allowed]

\* ------------------------------------------------ concurrent no-overwrite
\* write(data, overwrite=False) or transfer_from(src, overwrite=False) is
\* called on the destination; the source is another resource.
RaceCall(t, op) ==
    /\ racePc[t] = "idle"
    /\ racePc' = [racePc EXCEPT ![t] = "exists"]
    /\ raceOp' = [raceOp EXCEPT ![t] = op]
    /\ UNCHANGED <<raceDst, raceUploads, raceOutcome>>
    /\ UNCHANGED <<handleVars, transferVars, sessionVars, requestVars, walkVars, uriVars,
                   davVars, probeVars, mkdirVars, retryVars, authVars>>

\* "if not overwrite and self.exists(): raise FileExistsError": the request
\* of exists() is answered from what the server holds at that time.
RaceExists(t) ==
    /\ racePc[t] = "exists"
    /\ IF raceDst # 0
       THEN /\ racePc' = [racePc EXCEPT ![t] = "done"]
            /\ raceOutcome' = [raceOutcome EXCEPT ![t] = "FileExistsError"]
       ELSE /\ racePc' = [racePc EXCEPT ![t] = "upload"]
            /\ UNCHANGED raceOutcome
    /\ UNCHANGED <<raceDst, raceOp, raceUploads>>
    /\ UNCHANGED <<handleVars, transferVars, sessionVars, requestVars, walkVars, uriVars,
                   davVars, probeVars, mkdirVars, retryVars, authVars>>

\* The upload: _put(data) of write, _copy_via_local or _move of
\* transfer_from; the request carries no precondition on the destination.
RaceUpload(t) ==
    /\ racePc[t] = "upload"
    /\ raceDst' = t
    /\ raceUploads' = Append(raceUploads, t)
    /\ racePc' = [racePc EXCEPT ![t] = "done"]
    /\ raceOutcome' = [raceOutcome EXCEPT ![t] = "returned"]
    /\ UNCHANGED raceOp
    /\ UNCHANGED <<handleVars, transferVars, sessionVars, requestVars, walkVars, uriVars,
                   davVars, probeVars, mkdirVars, retryVars, authVars>>

NextRace ==
    \/ \E t \in Callers, op \in {"write", "transfer_from"} : RaceCall(t, op)
    \/ \E t \in Callers : RaceExists(t)
    \/ \E t \in Callers : RaceUpload(t)

InitRace ==
    /\ InitHandle /\ NoTransfer /\ NoSessions /\ NoRequest /\ NoWalk /\ NoUri /\ NoDav
    /\ NoProbe /\ NoMkdir /\ NoRace /\ NoRetry /\ NoAuth

SpecRace == InitRace /\ [][NextRace]_vars

\* C32: with overwrite=False, of the callers that run write or transfer_from
\* on one destination at most one uploads its data, in every interleaving;
\* every other one fails with FileExistsError.
C32_NoOverwriteWhenConcurrent ==
    /\ Len(raceUploads) <= 1
    /\ \A t \in Callers :
         (racePc[t] = "done" /\ raceUploads # <<>> /\ raceUploads[1] # t)
         => raceOutcome[t] = "FileExistsError"

\* ------------------------------------------------------------- retries
\* Retry(total=6, connect=3, read=3, status=5, allowed_methods=...,
\* status_forcelist=..., respect_retry_after_header=True) as mounted on the
\* sessions, and what urllib3 does with it for one request.
allowed_methods == {"COPY", "DELETE", "GET", "HEAD", "MKCOL", "OPTIONS", "PROPFIND", "PUT"}
status_forcelist ==
    {too_many_requests, internal_server_error, bad_gateway, service_unavailable,
     gateway_timeout}
\* urllib3's Retry.RETRY_AFTER_STATUS_CODES, honoured with
\* respect_retry_after_header=True
RETRY_AFTER_STATUS_CODES == {413, too_many_requests, service_unavailable}

\* The methods HttpResourcePath sends.
RequestMethods == allowed_methods \cup {"MOVE"}

\* What one attempt meets: an error before the request is sent, an error
\* after it, or an answer, with or without a Retry-After header.
Failure(kind, code, retryAfter) == [kind |-> kind, code |-> code, retryAfter |-> retryAfter]
Attempts ==
    {Failure("connect", 0, FALSE), Failure("read", 0, FALSE)}
    \cup {Failure("status", code, h) :
            code \in {ok, not_found, 413} \cup status_forcelist, h \in BOOLEAN}

\* Retry.is_retry(method, status_code, has_retry_after)
is_retry(method, code, has_retry_after) ==
    IF method \notin allowed_methods THEN FALSE
    ELSE IF code \in status_forcelist THEN TRUE
    ELSE has_retry_after /\ code \in RETRY_AFTER_STATUS_CODES

\* Retry.increment: the counts after a failure of the kind
increment(r, kind) ==
    [total |-> r.total - 1,
     connect |-> IF kind = "connect" THEN r.connect - 1 ELSE r.connect,
     read |-> IF kind = "read" THEN r.read - 1 ELSE r.read,
     status |-> IF kind = "status" THEN r.status - 1 ELSE r.status]
\* Retry.is_exhausted
is_exhausted(r) == r.total < 0 \/ r.connect < 0 \/ r.read < 0 \/ r.status < 0

\* session.request(method, ...) is called.
SendRequest(method) ==
    /\ retryMethod = "none"
    /\ retryMethod' = method
    /\ UNCHANGED <<retries, retried, retryCause, retryOutcome>>
    /\ UNCHANGED <<handleVars, transferVars, sessionVars, requestVars, walkVars, uriVars,
                   davVars, probeVars, mkdirVars, raceVars, authVars>>

\* One attempt of urlopen: the answer is returned, or the failure is counted
\* and the request sent again, or the exception leaves.
Attempt ==
    /\ retryMethod # "none"
    /\ retryOutcome = "none"
    /\ \E a \in Attempts :
         LET again == \/ a.kind = "connect"
                      \/ (a.kind = "read" /\ retryMethod \in allowed_methods)
                      \/ (a.kind = "status" /\ is_retry(retryMethod, a.code, a.retryAfter))
             new == increment(retries, a.kind)
         IN  IF ~again
             THEN /\ retryOutcome' = IF a.kind = "status" THEN "returned"
                                     ELSE "ConnectionError"
                  /\ UNCHANGED <<retries, retried, retryCause>>
             ELSE IF is_exhausted(new)
             THEN /\ retryOutcome' = IF a.kind = "status" THEN "RetryError"
                                     ELSE "ConnectionError"
                  /\ UNCHANGED <<retries, retried, retryCause>>
             ELSE /\ retries' = new
                  /\ retried' = [retried EXCEPT !.total = @ + 1, ![a.kind] = @ + 1]
                  /\ retryCause' = a
                  /\ UNCHANGED retryOutcome
    /\ UNCHANGED retryMethod
    /\ UNCHANGED <<handleVars, transferVars, sessionVars, requestVars, walkVars, uriVars,
                   davVars, probeVars, mkdirVars, raceVars, authVars>>

NextRetry ==
    \/ \E method \in RequestMethods : SendRequest(method)
    \/ Attempt

InitRetry ==
    /\ InitHandle /\ NoTransfer /\ NoSessions /\ NoRequest /\ NoWalk /\ NoUri /\ NoDav
    /\ NoProbe /\ NoMkdir /\ NoRace /\ NoRetry /\ NoAuth

SpecRetry == InitRetry /\ [][NextRetry]_vars

\* C34: a request is sent again only when its method is one of GET, HEAD,
\* PUT, DELETE, MKCOL, OPTIONS, PROPFIND, COPY and it failed with a connection
\* or read error or with status 429, 500, 502, 503 or 504 (so never a MOVE,
\* and never after another status); it is sent again at most 6 times in all,
\* 3 times after connection errors, 3 times after read errors and 5 times
\* after such statuses.
C34_RetriesOnlyIdempotent ==
    /\ retried.total > 0 =>
         /\ retryMethod \in {"GET", "HEAD", "PUT", "DELETE", "MKCOL", "OPTIONS", "PROPFIND",
                             "COPY"}
         /\ retryCause.kind \in {"connect", "read", "status"}
         /\ retryCause.kind = "status" => retryCause.code \in {429, 500, 502, 503, 504}
    /\ retried.total <= 6
    /\ retried.connect <= 3
    /\ retried.read <= 3
    /\ retried.status <= 5

\* ------------------------------------------------------ the bearer token
\* _make_session: session.auth is a BearerTokenAuth when the scheme of the
\* instance is https and the token is set; BearerTokenAuth.__call__ then puts
\* the Authorization header on every request the session prepares.
session_auth == authEndpoint = "https" /\ authToken

\* session.request(method, url, ..., allow_redirects=False) is sent.
AuthRequest(method) ==
    authSent' = Append(authSent, [method |-> method, scheme |-> authUrl,
                                  authorization |-> session_auth])

\* The answers: a redirect to a URL of either scheme, or another answer.
AuthAnswers == {"redirect_http", "redirect_https", "final"}
LocationScheme(answer) == IF answer = "redirect_http" THEN "http" ELSE "https"

\* _send_webdav_request(method): url = self.geturl()
AuthSendWebdavRequest(method) ==
    /\ authPc = "idle"
    /\ authPc' = "loop"
    /\ authMethod' = method
    /\ authUrl' = authEndpoint
    /\ UNCHANGED <<authEndpoint, authToken, authIter, authSent>>
    /\ UNCHANGED <<handleVars, transferVars, sessionVars, requestVars, walkVars, uriVars,
                   davVars, probeVars, mkdirVars, raceVars, retryVars>>

\* the loop of _send_webdav_request: the request, then the Location followed
AuthRequestLoop ==
    /\ authPc = "loop"
    /\ authIter < max_redirects
    /\ AuthRequest(authMethod)
    /\ authIter' = authIter + 1
    /\ \E answer \in AuthAnswers :
         IF answer = "final"
         THEN authPc' = "done" /\ UNCHANGED authUrl
         ELSE /\ authUrl' = LocationScheme(answer)
              /\ authPc' = IF authIter + 1 < max_redirects THEN "loop" ELSE "done"
    /\ UNCHANGED <<authEndpoint, authToken, authMethod>>
    /\ UNCHANGED <<handleVars, transferVars, sessionVars, requestVars, walkVars, uriVars,
                   davVars, probeVars, mkdirVars, raceVars, retryVars>>

\* _put(data): url = self.geturl()
AuthPut ==
    /\ authPc = "idle"
    /\ authPc' = "put_empty"
    /\ authMethod' = "PUT"
    /\ authUrl' = authEndpoint
    /\ UNCHANGED <<authEndpoint, authToken, authIter, authSent>>
    /\ UNCHANGED <<handleVars, transferVars, sessionVars, requestVars, walkVars, uriVars,
                   davVars, probeVars, mkdirVars, raceVars, retryVars>>

\* _put: the PUT without content, and the Location of a redirect taken
AuthPutEmpty ==
    /\ authPc = "put_empty"
    /\ AuthRequest("PUT")
    /\ \E answer \in AuthAnswers :
         authUrl' = IF answer = "final" THEN authUrl ELSE LocationScheme(answer)
    /\ authPc' = "put_data"
    /\ UNCHANGED <<authEndpoint, authToken, authMethod, authIter>>
    /\ UNCHANGED <<handleVars, transferVars, sessionVars, requestVars, walkVars, uriVars,
                   davVars, probeVars, mkdirVars, raceVars, retryVars>>

\* _put: the PUT with the data
AuthPutData ==
    /\ authPc = "put_data"
    /\ AuthRequest("PUT")
    /\ authPc' = "done"
    /\ UNCHANGED <<authEndpoint, authToken, authMethod, authUrl, authIter>>
    /\ UNCHANGED <<handleVars, transferVars, sessionVars, requestVars, walkVars, uriVars,
                   davVars, probeVars, mkdirVars, raceVars, retryVars>>

NextAuth ==
    \/ \E method \in Methods : AuthSendWebdavRequest(method)
    \/ AuthRequestLoop
    \/ AuthPut
    \/ AuthPutEmpty
    \/ AuthPutData

\* An instance of either scheme, with or without a token in the environment.
InitAuth ==
    /\ InitHandle /\ NoTransfer /\ NoSessions /\ NoRequest /\ NoWalk /\ NoUri /\ NoDav
    /\ NoProbe /\ NoMkdir /\ NoRace /\ NoRetry
    /\ authEndpoint \in {"http", "https"}
    /\ authToken \in BOOLEAN
    /\ authPc = "idle"
    /\ authMethod = "none"
    /\ authUrl = "none"
    /\ authIter = 0
    /\ authSent = <<>>

SpecAuth == InitAuth /\ [][NextAuth]_vars

\* C40: no request to a plain http URL carries the Authorization header, the
\* URL a followed redirect points to included.
C40_TokenOnlyOverHttps ==
    \A i \in 1..Len(authSent) : authSent[i].scheme = "http" => ~authSent[i].authorization

====
